---- MODULE Spec2Model ----
(***************************************************************************)
(* Model of the BMW diagnostic gateway (hessuss14710/bmw-diagnostic-tool). *)
(*                                                                         *)
(* Two programs share the design: the FTDI daemon (src/daemon-ftdi) and    *)
(* the Tauri application (src/app/src-tauri).  Both are modelled:          *)
(*   - the KWP2000 frame codec of each (pure functions),                   *)
(*   - the K-Line link layer send_request of each (timing, responses),     *)
(*   - the command dispatchers and the lock that serialises the bus.       *)
(*                                                                         *)
(* Bytes are naturals 0..255; a frame is a sequence of bytes.              *)
(***************************************************************************)
EXTENDS Naturals, Integers, Sequences, FiniteSets, TLC

(***************************************************************************)
(* Byte arithmetic                                                         *)
(***************************************************************************)

Min(a, b) == IF a <= b THEN a ELSE b

Max(a, b) == IF a >= b THEN a ELSE b

\* bitwise AND / OR of two naturals, bit by bit
RECURSIVE BitAnd(_, _)
BitAnd(a, b) ==
    IF a = 0 \/ b = 0 THEN 0
    ELSE ((a % 2) * (b % 2)) + 2 * BitAnd(a \div 2, b \div 2)

RECURSIVE BitOr(_, _)
BitOr(a, b) ==
    IF a = 0 THEN b
    ELSE IF b = 0 THEN a
    ELSE Max(a % 2, b % 2) + 2 * BitOr(a \div 2, b \div 2)

\* `x as u8`
AsU8(x) == x % 256

\* plain (unbounded) sum of the bytes s[lo..hi], halving the range
RECURSIVE SumRange(_, _, _)
SumRange(s, lo, hi) ==
    IF lo > hi THEN 0
    ELSE IF lo = hi THEN s[lo]
    ELSE LET mid == (lo + hi) \div 2
         IN  SumRange(s, lo, mid) + SumRange(s, mid + 1, hi)

\* plain (unbounded) sum of the first n bytes of s
SumTo(s, n) == SumRange(s, 1, n)

\* bytes.iter().fold(0u8, |acc, &b| acc.wrapping_add(b))
WrappingSum(s) == SumTo(s, Len(s)) % 256

(***************************************************************************)
(* Daemon codec: src/daemon-ftdi/src/kwp2000.rs                            *)
(***************************************************************************)

\* a variant of to_bytes that forgets to cap the length at 255
KwpMessage_to_bytes_nocap(source, target, data) ==
    LET length == Len(data)
        bytes  == IF length <= 63
                  THEN <<BitOr(128, AsU8(length)), target, source>> \o data
                  ELSE <<192, target, source, AsU8(length)>> \o data
    IN  Append(bytes, WrappingSum(bytes))

\* a variant of to_bytes whose checksum skips the three header bytes
KwpMessage_to_bytes_badsum(source, target, data) ==
    LET length == Len(data)
        effective_length == Min(length, 255)
        body   == SubSeq(data, 1, effective_length)
        bytes  == IF effective_length <= 63
                  THEN <<BitOr(128, AsU8(effective_length)), target, source>> \o body
                  ELSE <<192, target, source, AsU8(effective_length)>> \o body
    IN  Append(bytes, WrappingSum(body))

\* KwpMessage::to_bytes: FMT TGT SRC [LEN] DATA... CHK, data capped at 255
KwpMessage_to_bytes(source, target, data) ==
    LET length == Len(data)
        effective_length == Min(length, 255)
        body   == SubSeq(data, 1, effective_length)
        bytes  == IF effective_length <= 63
                  THEN <<BitOr(128, AsU8(effective_length)), target, source>> \o body
                  ELSE <<192, target, source, AsU8(effective_length)>> \o body
    IN  Append(bytes, WrappingSum(bytes))

NoResponse == [ok |-> FALSE, source |-> 0, target |-> 0, service |-> 0, data |-> <<>>]

\* a parser that takes the checksum byte on trust
KwpResponse_parse_nosum(data) ==
    IF Len(data) < 4 \/ data[1] < 128 \/ data[1] >= 192
       \/ Len(data) < 4 + BitAnd(data[1], 63) \/ BitAnd(data[1], 63) = 0
    THEN NoResponse
    ELSE [ok |-> TRUE, source |-> data[3], target |-> data[2],
          service |-> data[4], data |-> SubSeq(data, 5, 3 + BitAnd(data[1], 63))]

\* KwpResponse::parse: None is [ok |-> FALSE ...]
KwpResponse_parse(data) ==
    IF Len(data) < 4 THEN NoResponse
    ELSE
      LET fmt    == data[1]
          target == data[2]
          source == data[3]
      IN
      IF fmt >= 192 /\ Len(data) < 5 THEN NoResponse
      ELSE IF fmt < 128 THEN NoResponse
      ELSE
        LET data_length == IF fmt >= 192 THEN data[4] ELSE BitAnd(fmt, 63)
            data_start  == IF fmt >= 192 THEN 4 ELSE 3      \* 0-based offset
            total_length == data_start + data_length + 1
        IN
        IF Len(data) < total_length THEN NoResponse
        ELSE
          LET calc_checksum == WrappingSum(SubSeq(data, 1, total_length - 1))
              recv_checksum == data[total_length]
              response_data == SubSeq(data, data_start + 1, data_start + data_length)
          IN
          IF calc_checksum # recv_checksum THEN NoResponse
          ELSE IF response_data = <<>> THEN NoResponse
          ELSE [ok |-> TRUE, source |-> source, target |-> target,
                service |-> response_data[1], data |-> Tail(response_data)]

\* KwpResponse::is_positive
is_positive(r) == r.service >= 64 /\ r.service # 127

\* KwpResponse::is_negative
is_negative(r) == r.service = 127

(***************************************************************************)
(* Application codec: src/app/src-tauri/src/kline.rs                       *)
(***************************************************************************)

\* the u16 accumulator of calculate_checksum overflows above 65535
ChecksumOverflows(format, target, source, data) ==
    format + target + source + SumTo(data, Len(data)) > 65535

\* a variant of calculate_checksum that sums the data bytes only
KLineMessage_calculate_checksum_dataonly(format, target, source, data) ==
    BitAnd(SumTo(data, Len(data)) % 65536, 255)

\* KLineMessage::calculate_checksum, with the accumulator wrapping at 2^16
KLineMessage_calculate_checksum(format, target, source, data) ==
    BitAnd((format + target + source + SumTo(data, Len(data))) % 65536, 255)

\* KLineMessage::new
KLineMessage_new(target, source, data) ==
    LET format == IF Len(data) < 64 THEN BitOr(128, AsU8(Len(data))) ELSE 128
    IN  [format |-> format, target |-> target, source |-> source, data |-> data,
         checksum |-> KLineMessage_calculate_checksum(format, target, source, data)]

\* KLineMessage::to_bytes
KLineMessage_to_bytes(msg) ==
    <<msg.format, msg.target, msg.source>> \o msg.data \o <<msg.checksum>>

NoMessage == [ok |-> FALSE, format |-> 0, target |-> 0, source |-> 0,
              data |-> <<>>, checksum |-> 0]

\* KLineMessage::from_bytes: Err(..) is [ok |-> FALSE ...]
KLineMessage_from_bytes(bytes) ==
    IF Len(bytes) < 4 THEN NoMessage
    ELSE
      LET format == bytes[1]
          target == bytes[2]
          source == bytes[3]
          ext    == BitAnd(format, 63) = 0
      IN
      IF ext /\ Len(bytes) < 5 THEN NoMessage
      ELSE
        LET data_len   == IF ext THEN bytes[4] ELSE BitAnd(format, 63)
            data_start == IF ext THEN 4 ELSE 3
            data_end   == data_start + data_len
        IN
        IF Len(bytes) < data_end + 1 THEN NoMessage
        ELSE
          LET data     == SubSeq(bytes, data_start + 1, data_end)
              checksum == bytes[data_end + 1]
          IN
          IF KLineMessage_calculate_checksum(format, target, source, data) # checksum
          THEN NoMessage
          ELSE [ok |-> TRUE, format |-> format, target |-> target,
                source |-> source, data |-> data, checksum |-> checksum]

(***************************************************************************)
(* State                                                                   *)
(***************************************************************************)

VARIABLES
    \* codec harness: one frame being encoded and decoded
    c_variant,        \* "daemon" (KwpMessage/KwpResponse) or "app" (KLineMessage)
    c_source,         \* source address of the frame
    c_target,         \* target address of the frame
    c_payload,        \* payload bytes (service id first)
    c_stage,          \* "idle" | "input" | "encoded" | "decoded"
    c_bytes,          \* bytes produced by the encoder
    c_error,          \* "none", or how the encoder failed ("overflow_panic")
    c_decoded,        \* result of decoding c_bytes
    overflow_checks   \* build profile: integer overflow panics (debug) or wraps

codecVars == <<c_variant, c_source, c_target, c_payload, c_stage, c_bytes,
               c_error, c_decoded, overflow_checks>>

VARIABLES
    \* K-Line link: one link, successive send_request calls
    l_variant,        \* "daemon" (KLine) or "app" (KLineHandler)
    l_windows,        \* cfg(target_os = "windows")
    k_initialized,    \* KLine::initialized
    k_ecu_address,    \* KLine::ecu_address
    k_key_bytes,      \* KLine::key_bytes, <<>> for None
    k_since_stamp,    \* KLine::last_request_time.elapsed() in ms, -1 for None
    l_pc,             \* position inside send_request
    l_req,            \* request payload: service id, then data
    l_reply,          \* what the ECU does with the request in flight
    l_result,         \* what the last call returned
    l_prev,           \* what the call before the last one returned
    l_since_end,      \* ms since the previous send_request returned, -1 if none
    l_gap             \* ms between the previous return and the write in progress, -1 if none

linkVars == <<l_variant, l_windows, k_initialized, k_ecu_address, k_key_bytes,
              k_since_stamp, l_pc, l_req, l_reply, l_result, l_prev,
              l_since_end, l_gap>>

VARIABLES
    \* command dispatch: the clients of one program and its shared state
    d_variant,        \* "daemon" (process_command) or "app" (Tauri commands)
    lease,            \* owner of the Mutex over AppState / SerialManager, or Free
    connected,        \* state.kline is Some / manager.port is Some
    initialized,      \* KLine.initialized of the daemon's kline
    t_pc,             \* per client: "idle", "locking", "held", "writing", "reading"
    t_cmd,            \* per client: the command being served
    t_plan,           \* per client: requests still to send under this hold
    t_ecus,           \* per client: ECUs bmw_read_all_dtcs has still to visit
    t_sent,           \* per client: bytes of the current frame already written
    t_exit,           \* per client: how the last command returned
    bus,              \* whose frame is on the wire and whether it is complete
    torn              \* a byte was written inside another request's frame

dispVars == <<d_variant, lease, connected, initialized, t_pc, t_cmd, t_plan,
              t_ecus, t_sent, t_exit, bus, torn>>

VARIABLES
    \* receive harness: one byte sequence read from the bus and decoded
    r_variant,        \* "daemon" (KwpResponse::parse) or "app" (from_bytes)
    r_body,           \* the frame bytes that precede the checksum byte
    r_chk,            \* the checksum byte received
    r_stage,          \* "idle", "received", "decoded"
    r_decoded         \* what the decoder returned

rxVars == <<r_variant, r_body, r_chk, r_stage, r_decoded>>

VARIABLES
    \* link initialization: one init call after another on one link
    i_variant,        \* "daemon" (KLine) or "app" (KLineHandler, bmw_kline_init)
    i_call,           \* the call under way: "none", "InitEcu", "bmw_kline_init"
    i_fast,           \* InitEcu's fast flag
    i_address,        \* the target ECU address of the call
    i_pc,             \* position inside the call
    i_bits,           \* 5-baud emission: line levels and their durations in ms
    i_tx,             \* frames and bytes written at 10400 baud, in order
    i_pulse,          \* fast init: <<break ms, wait ms>> before StartCommunication
    i_rx,             \* the ECU's answer to StartCommunication and its arrival time
    i_log,            \* slow init: what happened on the bus, in order
    i_attempts,       \* the attempts of the call: method and outcome
    i_result,         \* what the call returned
    i_initialized,    \* KLine.initialized
    i_ecu_address,    \* KLine.ecu_address
    i_key_bytes       \* KLine.key_bytes / the key bytes returned

initVars == <<i_variant, i_call, i_fast, i_address, i_pc, i_bits, i_tx, i_pulse,
              i_rx, i_log, i_attempts, i_result, i_initialized, i_ecu_address,
              i_key_bytes>>

VARIABLES
    \* diagnostic session: the exchanges of one link with its ECU, in order
    s_variant,        \* "daemon" (KLine behind process_command) or "app"
    s_initialized,    \* KLine.initialized; the application keeps no such flag
    s_log             \* the exchanges on the bus so far: operation and outcome

sessVars == <<s_variant, s_initialized, s_log>>

VARIABLES
    \* service commands of the application: one client call after another
    a_cmd,            \* the command of the call under way or just returned
    a_level,          \* bmw_security_access: the level argument
    a_pc,             \* "idle" or the request whose response is awaited
    a_tx,             \* the requests written to the bus in this call, in order
    a_rx,             \* what send_request returned for each of them
    a_result          \* what the call returned

cmdVars == <<a_cmd, a_level, a_pc, a_tx, a_rx, a_result>>

VARIABLES
    \* ISO-TP transport of the application: one send_message call after another
    tp_payload,       \* the data handed to send_message
    tp_pc,            \* send_message: "idle", "wait_fc", "cf", "sent", "failed"
    tp_offset,        \* send_message: offset of the next chunk
    tp_sequence,      \* send_message: sequence of the next Consecutive Frame
    tp_frames,        \* the CAN frames (8 data bytes each) written to the port
    tp_fc,            \* the flag of the Flow Control frame received, -1 if none
    tp_wire,          \* the CAN frames that arrive for receive_isotp_message
    tp_rpc,           \* receive_isotp_message: "idle", "first", "cf", "done", "failed"
    tp_next,          \* index in tp_wire of the next frame to arrive
    tp_total_len,     \* receive_isotp_message: total_len of the First Frame
    tp_expected_seq,  \* receive_isotp_message: expected_seq
    tp_result,        \* receive_isotp_message: result, the bytes accumulated
    tp_seen,          \* the sequence numbers of the Consecutive Frames read
    tp_returned       \* what receive_isotp_message returned

tpVars == <<tp_payload, tp_pc, tp_offset, tp_sequence, tp_frames, tp_fc, tp_wire,
            tp_rpc, tp_next, tp_total_len, tp_expected_seq, tp_result, tp_seen,
            tp_returned>>

VARIABLES
    \* DTC decoding: one 3-byte DTC record decoded after another
    g_variant,        \* "daemon" (decode_dtc, DtcStatus::from) or "app" (Dtc::from_bytes)
    g_bytes,          \* the record: DTC high byte, DTC low byte, status byte
    g_stage,          \* "idle" or "decoded"
    g_code,           \* the code string, one character per element
    g_status          \* the decoded status: its flags and the raw byte

dtcVars == <<g_variant, g_bytes, g_stage, g_code, g_status>>

VARIABLES
    \* ReadDataByIdentifier: one call after another
    rd_variant,        \* "dcan" (read_data_by_id), "kline" (read_did_kline) or
                      \* "kline_multi" (read_dids_kline asked for one identifier)
    rd_did,            \* the requested 16-bit identifier
    rd_response,       \* what send_message / send_request returned
    rd_stage,          \* "idle" or "returned"
    rd_result          \* what the call returned

didVars == <<rd_variant, rd_did, rd_response, rd_stage, rd_result>>

VARIABLES
    \* the application's store: one SQLite connection behind a Mutex
    db_foreign_keys,  \* foreign-key enforcement of the connection: the SQLite
                      \* library's compiled-in default, which no statement of
                      \* the program changes
    db_vehicles,      \* ids of the rows of vehicles
    db_sessions,      \* rows of diagnostic_sessions: [id, vehicle_id]
    db_dtcs,          \* rows of dtcs: [id, session_id]
    db_seq,           \* AUTOINCREMENT: the largest id given out, per table
    db_last           \* the operation that returned last

dbVars == <<db_foreign_keys, db_vehicles, db_sessions, db_dtcs, db_seq, db_last>>

VARIABLES
    \* the daemon process: main, run_server and the connection handlers
    sv_pc,            \* "start", "scanned", "listening", "checking" or "exited"
    sv_exit,          \* the exit code, -1 while the process runs
    sv_listed,        \* the adapters were enumerated and printed
    sv_bound,         \* run_server has bound its socket
    sv_arrived,       \* connections that listener.accept() has returned so far
    sv_current,       \* run_server's local: the counter as it was loaded
    ACTIVE_CONNECTIONS, \* the global connection counter
    h_pc,             \* per connection: "none", "accepted", "dropped",
                      \* "handshake", "serving", "returned", "closed"
    h_end,            \* per connection in "returned": why handle_connection ended
    h_incs,           \* per connection: fetch_add calls made for it
    h_decs            \* per connection: fetch_sub calls made for it

srvVars == <<sv_pc, sv_exit, sv_listed, sv_bound, sv_arrived, sv_current,
             ACTIVE_CONNECTIONS, h_pc, h_end, h_incs, h_decs>>

VARIABLES
    \* one connection's message loop (handle_connection) and its rate limit;
    \* time advances in steps of TickMs
    q_command_count,  \* command_count
    q_elapsed,        \* rate_limit_start.elapsed(), in ticks, saturating
    q_recent,         \* commands executed at each of the last TicksPerSecond
                      \* instants, the present one last
    q_last            \* what the last text message got: "none", "executed",
                      \* "invalid" or "rate_limited"

rateVars == <<q_command_count, q_elapsed, q_recent, q_last>>

VARIABLES
    \* the connection manager: SerialManager (application), AppState (daemon)
    cm_variant,       \* "app" or "daemon"
    cm_port,          \* a handle is held: SerialManager.port / AppState.kline
                      \* is Some
    cm_current,       \* current_port / connected_device: 0 for None
    cm_state,         \* SerialManager.state; the daemon has no such field
    cm_baud_rate,     \* SerialManager.baud_rate
    cm_last           \* the operation that completed last and what was held
                      \* before it

connVars == <<cm_variant, cm_port, cm_current, cm_state, cm_baud_rate, cm_last>>

vars == <<codecVars, linkVars, dispVars, rxVars, initVars, sessVars, cmdVars, tpVars, dtcVars, didVars, dbVars, srvVars, rateVars, connVars>>

\* what the codec harness leaves alone
notCodecVars == <<linkVars, dispVars, rxVars, initVars, sessVars, cmdVars, tpVars, dtcVars, didVars, dbVars, srvVars, rateVars, connVars>>

\* what the link layer leaves alone
notLinkVars == <<codecVars, dispVars, rxVars, initVars, sessVars, cmdVars, tpVars, dtcVars, didVars, dbVars, srvVars, rateVars, connVars>>

\* what the command dispatchers leave alone
notDispVars == <<codecVars, linkVars, rxVars, initVars, sessVars, cmdVars, tpVars, dtcVars, didVars, dbVars, srvVars, rateVars, connVars>>

\* what the receive harness leaves alone
notRxVars == <<codecVars, linkVars, dispVars, initVars, sessVars, cmdVars, tpVars, dtcVars, didVars, dbVars, srvVars, rateVars, connVars>>

\* what link initialization leaves alone
notInitVars == <<codecVars, linkVars, dispVars, rxVars, sessVars, cmdVars, tpVars, dtcVars, didVars, dbVars, srvVars, rateVars, connVars>>

\* what the diagnostic session leaves alone
notSessVars == <<codecVars, linkVars, dispVars, rxVars, initVars, cmdVars, tpVars, dtcVars, didVars, dbVars, srvVars, rateVars, connVars>>

\* what the application's service commands leave alone
notCmdVars == <<codecVars, linkVars, dispVars, rxVars, initVars, sessVars, tpVars, dtcVars, didVars, dbVars, srvVars, rateVars, connVars>>

\* what the ISO-TP transport leaves alone
notTpVars == <<codecVars, linkVars, dispVars, rxVars, initVars, sessVars, cmdVars, dtcVars, didVars, dbVars, srvVars, rateVars, connVars>>

\* what DTC decoding leaves alone
notDtcVars == <<codecVars, linkVars, dispVars, rxVars, initVars, sessVars, cmdVars, tpVars, didVars, dbVars, srvVars, rateVars, connVars>>

\* what ReadDataByIdentifier leaves alone
notDidVars == <<codecVars, linkVars, dispVars, rxVars, initVars, sessVars, cmdVars, tpVars, dtcVars, dbVars, srvVars, rateVars, connVars>>

\* what the store operations leave alone
notDbVars == <<codecVars, linkVars, dispVars, rxVars, initVars, sessVars, cmdVars, tpVars, dtcVars, didVars, srvVars, rateVars, connVars>>

\* what the daemon process leaves alone
notSrvVars == <<codecVars, linkVars, dispVars, rxVars, initVars, sessVars, cmdVars, tpVars, dtcVars, didVars, dbVars, rateVars, connVars>>

\* what the rate limiter leaves alone
notRateVars == <<codecVars, linkVars, dispVars, rxVars, initVars, sessVars, cmdVars, tpVars, dtcVars, didVars, dbVars, srvVars, connVars>>

\* what the connection manager leaves alone
notConnVars == <<codecVars, linkVars, dispVars, rxVars, initVars, sessVars, cmdVars, tpVars, dtcVars, didVars, dbVars, srvVars, rateVars>>

(***************************************************************************)
(* Codec harness: inputs are drawn from bounded sets, the actions apply    *)
(* the encoder and the decoder of the chosen program.                      *)
(***************************************************************************)

\* longest payload handed to an encoder
MaxPayloadLen == 257

\* payload lengths around the 63/64 and 255/256 boundaries
PayloadLens == {n \in {0, 1, 2, 63, 64, 65, 254, 255, 256} : n <= MaxPayloadLen}
                   \cup {MaxPayloadLen}

PayloadFirst == {0, 62, 255}

PayloadStep == {0, 1}

Pattern(len, first, step) == [i \in 1..len |-> (first + (i - 1) * step) % 256]

\* tester 0xF1 and DME 0x12
CodecAddrs == {18, 241}

NoDecoded == [ok |-> FALSE, source |-> 0, target |-> 0, payload |-> <<>>]

CodecInit ==
    /\ c_variant = "daemon"
    /\ c_source = 241
    /\ c_target = 18
    /\ c_payload = <<>>
    /\ c_stage = "idle"
    /\ c_bytes = <<>>
    /\ c_error = "none"
    /\ c_decoded = NoDecoded
    /\ overflow_checks \in BOOLEAN

\* a caller builds a message: KwpMessage::new / KLineMessage::new arguments
CodecChoose ==
    /\ c_stage = "idle"
    /\ \E v \in {"daemon", "app"}, s \in CodecAddrs, t \in CodecAddrs,
          n \in PayloadLens, f \in PayloadFirst, d \in PayloadStep :
          /\ c_variant' = v
          /\ c_source' = s
          /\ c_target' = t
          /\ c_payload' = Pattern(n, f, d)
    /\ c_stage' = "input"
    /\ UNCHANGED <<c_bytes, c_error, c_decoded, overflow_checks>>
    /\ UNCHANGED notCodecVars

\* KwpMessage::new(..).to_bytes() / KLineMessage::new(..).to_bytes()
CodecEncode ==
    /\ c_stage = "input"
    /\ IF c_variant = "daemon"
       THEN /\ c_bytes' = KwpMessage_to_bytes(c_source, c_target, c_payload)
            /\ c_error' = "none"
       ELSE LET msg == KLineMessage_new(c_target, c_source, c_payload)
                ovf == overflow_checks
                       /\ ChecksumOverflows(msg.format, c_target, c_source, c_payload)
            IN  /\ c_error' = IF ovf THEN "overflow_panic" ELSE "none"
                /\ c_bytes' = IF ovf THEN <<>> ELSE KLineMessage_to_bytes(msg)
    /\ c_stage' = "encoded"
    /\ UNCHANGED <<c_variant, c_source, c_target, c_payload, c_decoded, overflow_checks>>
    /\ UNCHANGED notCodecVars

\* KwpResponse::parse / KLineMessage::from_bytes applied to the encoder's output
CodecDecode ==
    /\ c_stage = "encoded"
    /\ c_error = "none"
    /\ c_decoded' =
         IF c_variant = "daemon"
         THEN LET r == KwpResponse_parse(c_bytes)
              IN  IF r.ok
                  THEN [ok |-> TRUE, source |-> r.source, target |-> r.target,
                        payload |-> <<r.service>> \o r.data]
                  ELSE NoDecoded
         ELSE LET m == KLineMessage_from_bytes(c_bytes)
              IN  IF m.ok
                  THEN [ok |-> TRUE, source |-> m.source, target |-> m.target,
                        payload |-> m.data]
                  ELSE NoDecoded
    /\ c_stage' = "decoded"
    /\ UNCHANGED <<c_variant, c_source, c_target, c_payload, c_bytes, c_error,
                   overflow_checks>>
    /\ UNCHANGED notCodecVars

\* the message and the buffers are dropped
CodecReset ==
    /\ c_stage \in {"encoded", "decoded"}
    /\ c_stage' = "idle"
    /\ c_variant' = "daemon"
    /\ c_source' = 241
    /\ c_target' = 18
    /\ c_payload' = <<>>
    /\ c_bytes' = <<>>
    /\ c_error' = "none"
    /\ c_decoded' = NoDecoded
    /\ UNCHANGED overflow_checks
    /\ UNCHANGED notCodecVars

CodecNext ==
    \/ CodecChoose
    \/ CodecEncode
    \/ CodecDecode
    \/ CodecReset

(***************************************************************************)
(* Properties of the frame codec (checked under SpecCodec)                 *)
(***************************************************************************)

CodecEncoded == c_stage \in {"encoded", "decoded"}

\* C7: for every frame (source, target, payload) with at most 255 payload
\* bytes, decoding the encoder's output yields the same source, target and
\* payload.  A frame carries at least its service byte, payload[0].
C7_RoundTrip ==
    (c_stage = "decoded" /\ Len(c_payload) >= 1 /\ Len(c_payload) <= 255)
        => /\ c_decoded.ok
           /\ c_decoded.source = c_source
           /\ c_decoded.target = c_target
           /\ c_decoded.payload = c_payload

C9_EncoderLayout ==
    (CodecEncoded /\ c_error = "none")
        => LET n == Len(c_payload) IN
           /\ n <= 63 =>
                /\ Len(c_bytes) = n + 4
                /\ SubSeq(c_bytes, 1, 3) = <<128 + n, c_target, c_source>>
                /\ SubSeq(c_bytes, 4, n + 3) = c_payload
           /\ (64 <= n /\ n <= 255) =>
                /\ Len(c_bytes) = n + 5
                /\ SubSeq(c_bytes, 1, 4) = <<192, c_target, c_source, n>>
                /\ SubSeq(c_bytes, 5, n + 4) = c_payload

\* C10: in every emitted frame the last byte is the sum of all preceding
\* emitted bytes modulo 256.
C10_ChecksumIsSum ==
    (CodecEncoded /\ c_bytes # <<>>)
        => c_bytes[Len(c_bytes)] = SumTo(c_bytes, Len(c_bytes) - 1) % 256

\* C10 witness: the application encoder emitted a long frame whose byte sum
\* exceeds one byte
C10_Witness ==
    /\ c_stage = "encoded"
    /\ c_variant = "app"
    /\ Len(c_payload) >= 64
    /\ Len(c_bytes) > 4
    /\ SumTo(c_bytes, Len(c_bytes) - 1) > 255

(***************************************************************************)
(* K-Line link layer: KLine (daemon, src/daemon-ftdi/src/kline.rs) and     *)
(* KLineHandler (application, src/app/src-tauri/src/kline.rs).             *)
(*                                                                         *)
(* Time is kept as the milliseconds elapsed since an instant, which is     *)
(* what the code reads (Instant::elapsed); elapsed times saturate at       *)
(* TimeCap, above every threshold the code compares them with.             *)
(***************************************************************************)

\* KLine::new: tester_address 0xF1
TESTER == 241

\* KLine::new: ecu_address 0x12 (DME)
DME == 18

\* EcuAddress::EGS 0x18
EGS == 24

\* KLine::new: p3_min_ms
P3MinMs == 55

\* P3_TOLERANCE_MS on Windows
P3ToleranceWindows == 3

\* P3_TOLERANCE_MS elsewhere
P3ToleranceOther == 0

\* elapsed times are tracked up to this many ms
TimeCap == 60

\* a timer t (-1: not running) after d more ms
Elapse(t, d) == IF t = -1 THEN -1 ELSE Min(t + d, TimeCap)

\* u64::saturating_sub
saturating_sub(a, b) == IF a >= b THEN a - b ELSE 0

P3_TOLERANCE_MS == IF l_windows THEN P3ToleranceWindows ELSE P3ToleranceOther

\* requests a caller may issue: TesterPresent, ReadDataByIdentifier 0xAB10
LinkRequests == { <<62>>, <<34, 171, 16>> }

\* a frame on the wire from the ECU to the tester
EcuFrame(payload) == KwpMessage_to_bytes(k_ecu_address, TESTER, payload)

\* the same frame with a corrupted checksum byte
Corrupt(bytes) == [bytes EXCEPT ![Len(bytes)] = (@ + 1) % 256]

NoReply == [kind |-> "none", early |-> <<>>, late |-> <<>>,
            valid |-> FALSE, payload |-> <<>>, final |-> <<>>]

\* What the ECU may put on the line after a request req; early bytes arrive
\* inside the read window, late bytes after it.  payload is the payload of
\* the first frame, final the payload of the last one.
EcuReplies(req) ==
    LET pos  == <<req[1] + 64>> \o Tail(req) \o <<69>>
        neg  == <<127, req[1], 17>>
        pend == <<127, req[1], 120>>
        oth  == <<80, 1>>
    IN  { NoReply,
          [kind |-> "positive", early |-> EcuFrame(pos), late |-> <<>>,
           valid |-> TRUE, payload |-> pos, final |-> pos],
          [kind |-> "negative", early |-> EcuFrame(neg), late |-> <<>>,
           valid |-> TRUE, payload |-> neg, final |-> neg],
          [kind |-> "other", early |-> EcuFrame(oth), late |-> <<>>,
           valid |-> TRUE, payload |-> oth, final |-> oth],
          [kind |-> "badsum", early |-> Corrupt(EcuFrame(pos)), late |-> <<>>,
           valid |-> FALSE, payload |-> pos, final |-> pos],
          [kind |-> "truncated",
           early |-> SubSeq(EcuFrame(pos), 1, Len(EcuFrame(pos)) - 1),
           late |-> <<>>, valid |-> FALSE, payload |-> pos, final |-> pos],
          [kind |-> "pending", early |-> EcuFrame(pend) \o EcuFrame(pos),
           late |-> <<>>, valid |-> TRUE, payload |-> pend, final |-> pos],
          [kind |-> "pending", early |-> EcuFrame(pend), late |-> EcuFrame(pos),
           valid |-> TRUE, payload |-> pend, final |-> pos] }

NoResult == [status |-> "none", at |-> "none", payload |-> <<>>, err |-> "none"]

ErrResult(at, err) == [status |-> "err", at |-> at, payload |-> <<>>, err |-> err]

OkResult(payload) == [status |-> "ok", at |-> "read", payload |-> payload, err |-> "none"]

\* a variant of send_request that returns the bytes read when they do not
\* parse
KLine_response_lenient(req, buf) ==
    IF buf = <<>> THEN ErrResult("read", "No response from ECU (timeout)")
    ELSE LET r == KwpResponse_parse(buf)
         IN  IF r.ok THEN OkResult(<<r.service>> \o r.data)
             ELSE OkResult(buf)

\* KLine::send_request lines 345-349: the buffer read is parsed and returned
\* as it is, a variant that also demands the positive service id
KLine_response_checked(req, buf) ==
    LET r == KwpResponse_parse(buf)
    IN  IF ~r.ok THEN ErrResult("read", "Failed to parse response")
        ELSE IF r.service = 127 THEN ErrResult("read", "NegativeResponse")
        ELSE IF r.service # req[1] + 64 THEN ErrResult("read", "ProtocolMismatch")
        ELSE OkResult(<<r.service>> \o r.data)

\* KLine::send_request lines 341-349: Ok(KwpResponse) carries service and data;
\* the result's payload is service followed by data
KLine_response(req, buf) ==
    IF buf = <<>> THEN ErrResult("read", "No response from ECU (timeout)")
    ELSE LET r == KwpResponse_parse(buf)
         IN  IF r.ok THEN OkResult(<<r.service>> \o r.data)
             ELSE ErrResult("read", "Failed to parse response")

\* KLineHandler::send_request lines 403-411: length of the frame announced
\* by the bytes received so far
KLineHandler_frame_len(response) ==
    IF BitAnd(response[1], 63) = 0
    THEN (IF Len(response) >= 4 THEN response[4] ELSE 0) + 5
    ELSE BitAnd(response[1], 63) + 4

\* KLineHandler::send_request lines 398-416: the bytes collected before the
\* loop ends, when the ECU sends buf and port.read delivers n more bytes
\* than the announced frame needs
KLineHandler_collect(buf, n) ==
    IF Len(buf) < 4 THEN buf
    ELSE SubSeq(buf, 1, Min(Len(buf), KLineHandler_frame_len(buf) + n))

\* KLineHandler::send_request lines 418-426: Ok(msg.data)
KLineHandler_response(req, response) ==
    IF response = <<>> THEN ErrResult("read", "No response received")
    ELSE LET m == KLineMessage_from_bytes(response)
         IN  IF m.ok THEN OkResult(m.data)
             ELSE ErrResult("read", "from_bytes")

LinkInit ==
    /\ l_variant \in {"daemon", "app"}
    /\ l_windows \in BOOLEAN
    /\ k_initialized = FALSE
    /\ k_ecu_address = DME
    /\ k_key_bytes = <<>>
    /\ k_since_stamp = -1
    /\ l_pc = "idle"
    /\ l_req = <<>>
    /\ l_reply = NoReply
    /\ l_result = NoResult
    /\ l_prev = NoResult
    /\ l_since_end = -1
    /\ l_gap = -1

\* the ECU's answers to StartCommunication
InitReplies(address) ==
    { <<>>,
      KwpMessage_to_bytes(address, TESTER, <<193, 234, 143>>),
      KwpMessage_to_bytes(address, TESTER, <<193>>),
      KwpMessage_to_bytes(address, TESTER, <<127, 129, 16>>),
      Corrupt(KwpMessage_to_bytes(address, TESTER, <<193, 234, 143>>)) }

\* KLine::init_fast(address): break 30 ms, wait 25 ms, StartCommunication,
\* echo, read for 200 ms, parse; more than TimeCap ms pass
LinkInitFast ==
    /\ l_variant = "daemon"
    /\ l_pc = "idle"
    /\ \E address \in {DME, EGS}, io \in {"ok", "err"} :
         /\ k_ecu_address' = address
         /\ IF io = "err"
            THEN UNCHANGED <<k_initialized, k_key_bytes>>
            ELSE \E rx \in InitReplies(address) :
                   LET response == KwpResponse_parse(rx)
                   IN  IF rx # <<>> /\ response.ok /\ response.service = 193
                       THEN /\ k_initialized' = TRUE
                            /\ k_key_bytes' = IF Len(response.data) >= 2
                                              THEN <<response.data[1], response.data[2]>>
                                              ELSE <<143, 234>>
                       ELSE UNCHANGED <<k_initialized, k_key_bytes>>
    /\ k_since_stamp' = Elapse(k_since_stamp, TimeCap)
    /\ l_since_end' = Elapse(l_since_end, TimeCap)
    /\ UNCHANGED <<l_variant, l_windows, l_prev, l_pc, l_req, l_reply, l_result, l_gap>>
    /\ UNCHANGED notLinkVars

\* send_request is entered; KLine::send_request returns at once when the
\* link is not initialized; KLineHandler::send_request has no such state
LinkCall ==
    /\ l_pc = "idle"
    /\ \E req \in LinkRequests : l_req' = req
    /\ l_reply' = NoReply
    /\ l_prev' = l_result
    /\ l_gap' = -1
    /\ IF l_variant = "daemon" /\ ~k_initialized
       THEN /\ l_result' = ErrResult("entry", "K-Line not initialized")
            /\ l_pc' = "idle"
       ELSE /\ l_result' = NoResult
            /\ l_pc' = IF l_variant = "daemon" THEN "p3wait" ELSE "write"
    /\ UNCHANGED <<l_variant, l_windows, k_initialized, k_ecu_address, k_key_bytes,
                   k_since_stamp, l_since_end>>
    /\ UNCHANGED notLinkVars

\* ms by which delay_ms may overshoot its target
DelayJitter == {0, 1}

\* KLine::send_request lines 297-305: wait out the rest of P3min
LinkP3Wait ==
    /\ l_pc = "p3wait"
    /\ LET elapsed == k_since_stamp
           effective_p3min == saturating_sub(P3MinMs, P3_TOLERANCE_MS)
       IN  IF k_since_stamp # -1 /\ elapsed < effective_p3min
           THEN \E j \in DelayJitter :
                  LET wait_time == effective_p3min - elapsed
                  IN  /\ k_since_stamp' = Elapse(k_since_stamp, wait_time + j)
                      /\ l_since_end' = Elapse(l_since_end, wait_time + j)
           ELSE UNCHANGED <<k_since_stamp, l_since_end>>
    /\ l_pc' = "write"
    /\ UNCHANGED <<l_variant, l_windows, l_prev, k_initialized, k_ecu_address, k_key_bytes,
                   l_req, l_reply, l_result, l_gap>>
    /\ UNCHANGED notLinkVars

\* outcomes of the driver calls before the frame is on the wire
WriteOutcomes == IF l_variant = "daemon" THEN {"ok", "purge_err", "write_err"}
                 ELSE {"ok", "write_err"}

\* purge (daemon) and write of the encoded request; the ECU then reacts
LinkWrite ==
    /\ l_pc = "write"
    /\ \E io \in WriteOutcomes :
         IF io # "ok"
         THEN /\ l_result' = ErrResult("write", io)
              /\ l_pc' = "idle"
              /\ UNCHANGED <<l_reply, l_gap>>
         ELSE /\ l_gap' = l_since_end
              /\ \E reply \in EcuReplies(l_req) : l_reply' = reply
              /\ l_pc' = "echo"
              /\ UNCHANGED l_result
    /\ UNCHANGED <<l_variant, l_windows, l_prev, k_initialized, k_ecu_address, k_key_bytes,
                   k_since_stamp, l_req, l_since_end>>
    /\ UNCHANGED notLinkVars

\* ms the echo read may take: ftdi.read(echo, 50) / sleep(10) and port.read
EchoTimes == {4, 50}

\* the echo of the request is read back and dropped
LinkEcho ==
    /\ l_pc = "echo"
    /\ \E e \in EchoTimes :
         /\ k_since_stamp' = Elapse(k_since_stamp, e)
         /\ l_since_end' = Elapse(l_since_end, e)
    /\ l_pc' = "read"
    /\ UNCHANGED <<l_variant, l_windows, l_prev, k_initialized, k_ecu_address, k_key_bytes,
                   l_req, l_reply, l_result, l_gap>>
    /\ UNCHANGED notLinkVars

\* ms until the failing driver call of a read returns
ReadErrTimes == {0, 4}

\* KLine::send_request lines 331-349: read for 500 ms into a 256-byte
\* buffer, stamp last_request_time, parse, return.  A driver error returns
\* before the stamp.
LinkReadDaemon ==
    /\ l_pc = "read"
    /\ l_variant = "daemon"
    /\ \E io \in {"ok", "read_err"} :
         IF io = "read_err"
         THEN /\ l_result' = ErrResult("read_io", io)
              /\ \E d \in ReadErrTimes : k_since_stamp' = Elapse(k_since_stamp, d)
         ELSE /\ k_since_stamp' = 0
              /\ l_result' = KLine_response(l_req, SubSeq(l_reply.early, 1, Min(Len(l_reply.early), 256)))
    /\ l_since_end' = 0
    /\ l_pc' = "idle"
    /\ l_gap' = -1
    /\ UNCHANGED <<l_variant, l_windows, l_prev, k_initialized, k_ecu_address, k_key_bytes,
                   l_req, l_reply>>
    /\ UNCHANGED notLinkVars

\* KLineHandler::send_request lines 393-426: collect bytes until the
\* announced frame is complete or 1000 ms have passed, parse, return
LinkReadApp ==
    /\ l_pc = "read"
    /\ l_variant = "app"
    /\ \E n \in {0, 1, 64} :
         l_result' = KLineHandler_response(l_req, KLineHandler_collect(l_reply.early, n))
    /\ l_since_end' = 0
    /\ l_pc' = "idle"
    /\ l_gap' = -1
    /\ UNCHANGED <<l_variant, l_windows, l_prev, k_initialized, k_ecu_address, k_key_bytes,
                   k_since_stamp, l_req, l_reply>>
    /\ UNCHANGED notLinkVars

\* ms that may pass between two calls
IdleTimes == {4, 50}

\* time passes while no request is in progress
LinkTick ==
    /\ l_pc = "idle"
    /\ \E d \in IdleTimes :
         /\ (k_since_stamp # -1 /\ k_since_stamp < TimeCap)
              \/ (l_since_end # -1 /\ l_since_end < TimeCap)
         /\ k_since_stamp' = Elapse(k_since_stamp, d)
         /\ l_since_end' = Elapse(l_since_end, d)
    /\ UNCHANGED <<l_variant, l_windows, l_prev, k_initialized, k_ecu_address, k_key_bytes,
                   l_pc, l_req, l_reply, l_result, l_gap>>
    /\ UNCHANGED notLinkVars

LinkNext ==
    \/ LinkInitFast
    \/ LinkCall
    \/ LinkP3Wait
    \/ LinkWrite
    \/ LinkEcho
    \/ LinkReadDaemon
    \/ LinkReadApp
    \/ LinkTick

(***************************************************************************)
(* Properties of send_request (checked under SpecLink)                     *)
(***************************************************************************)

\* the last send_request went through its read and has returned
LinkReturned == l_pc = "idle" /\ l_result.at = "read"

\* C4: between the end of a send_request and the start of the next one's
\* transmission on the same link at least P3min minus the host tolerance
\* (3 ms on Windows, 0 elsewhere) elapses.
C4_P3minGap ==
    l_gap # -1 => l_gap >= P3MinMs - P3_TOLERANCE_MS

C6_PendingNotReturned ==
    (LinkReturned /\ l_reply.kind = "pending")
        => (l_result.status = "ok" /\ l_result.payload = l_reply.final)

\* the step in which a send_request returns a framing error: the bytes
\* received do not decode (bad checksum, incomplete frame)
FramingErrorReturn ==
    /\ l_pc = "read"
    /\ l_pc' = "idle"
    /\ l_result'.err \in {"Failed to parse response", "from_bytes"}

\* initialized, ecu_address and key_bytes of the link are left alone
SessionUnchanged == UNCHANGED <<k_initialized, k_ecu_address, k_key_bytes>>

MaxClients == 2

Clients == 1..MaxClients

\* PIDs in one ReadPids command (the daemon admits up to MAX_PIDS = 20)
MaxPids == 2

\* ECUs with a K-Line address visited by bmw_read_all_dtcs (e60_ecus)
MaxEcus == 2

\* the Mutex has no owner
Free == 0

\* init_fast: StartCommunication
StartCommunication == <<129>>

\* read_pid: OBD mode 01, PID 0x0C
ReadPidRequest == <<1, 12>>

\* read_manufacturer_pid: ReadDataByLocalIdentifier, PID 0x0C
ManufacturerPidRequest == <<33, 12>>

\* bmw_read_all_dtcs: ReadDTCInformation 19 02 FF
ReadDtcRequest == <<25, 2, 255>>

\* tester_present: 3E (daemon), 3E 00 (application)
TesterPresentRequest == IF d_variant = "daemon" THEN <<62>> ELSE <<62, 0>>

\* commands that only touch the connection
ControlCommands == {"Connect", "Disconnect", "serial_connect", "serial_disconnect"}

\* the commands of the program in use
Commands ==
    IF d_variant = "daemon"
    THEN {"Connect", "Disconnect", "InitEcu", "TesterPresent", "ReadPids"}
    ELSE {"serial_connect", "serial_disconnect", "bmw_tester_present",
          "bmw_read_all_dtcs"}

\* the requests a command sends while it holds the lease once
Plans(cmd) ==
    CASE cmd = "InitEcu" -> {<<StartCommunication>>}
      [] cmd \in {"TesterPresent", "bmw_tester_present"} -> {<<TesterPresentRequest>>}
      [] cmd = "ReadPids" -> {[i \in 1..n |-> ReadPidRequest] : n \in 0..MaxPids}
      [] cmd = "bmw_read_all_dtcs" -> {<<StartCommunication, ReadDtcRequest>>}
      [] OTHER -> {<<>>}

\* the frame a request puts on the wire
Wire(req) ==
    IF d_variant = "daemon"
    THEN KwpMessage_to_bytes(TESTER, DME, req)
    ELSE KLineMessage_to_bytes(KLineMessage_new(DME, TESTER, req))

\* a lock that is handed out whatever its state
MutexFree_always == TRUE

\* Mutex::lock succeeds only while no guard is alive
MutexFree == lease = Free

\* a guard whose drop leaves the Mutex locked
drop_guard_kept(c) == lease

\* the MutexGuard goes out of scope: the Mutex is unlocked
drop_guard(c) == IF lease = c THEN Free ELSE lease

\* a multi-ECU read that lets go of the Mutex once the ECU has answered
\* the init
same_guard_dropped(c) ==
    IF t_cmd[c] = "bmw_read_all_dtcs" THEN Free ELSE lease

\* the next request of a command goes out under the guard the command
\* already has: manager lives to the end of its block
same_guard(c) == lease

\* clients that hold a MutexGuard
Holding == {c \in Clients : t_pc[c] \in {"held", "writing", "reading"}}

\* clients whose request has bytes on the wire and has not returned
InFlight ==
    {c \in Clients : t_pc[c] = "reading" \/ (t_pc[c] = "writing" /\ t_sent[c] > 0)}

NoBus == [owner |-> Free, open |-> FALSE]

\* AppState / SerialManager after construction, no command under way
DispInit ==
    /\ d_variant \in {"daemon", "app"}
    /\ lease = Free
    /\ connected = FALSE
    /\ initialized = FALSE
    /\ t_pc = [c \in Clients |-> "idle"]
    /\ t_cmd = [c \in Clients |-> "none"]
    /\ t_plan = [c \in Clients |-> <<>>]
    /\ t_ecus = [c \in Clients |-> 0]
    /\ t_sent = [c \in Clients |-> 0]
    /\ t_exit = [c \in Clients |-> "none"]
    /\ bus = NoBus
    /\ torn = FALSE

\* a command arrives: handle_connection parses it / Tauri invokes it
DispSubmit ==
    \E c \in Clients, cmd \in Commands :
      \E plan \in Plans(cmd) :
        /\ t_pc[c] = "idle"
        /\ t_pc' = [t_pc EXCEPT ![c] = "locking"]
        /\ t_cmd' = [t_cmd EXCEPT ![c] = cmd]
        /\ t_plan' = [t_plan EXCEPT ![c] = plan]
        /\ t_ecus' = [t_ecus EXCEPT ![c] = IF cmd = "bmw_read_all_dtcs"
                                            THEN MaxEcus ELSE 0]
        /\ t_sent' = [t_sent EXCEPT ![c] = 0]
        /\ t_exit' = [t_exit EXCEPT ![c] = "none"]
        /\ UNCHANGED <<d_variant, lease, connected, initialized, bus, torn>>
        /\ UNCHANGED notDispVars

\* Connect with a negative device index, ReadPids with more than MAX_PIDS:
\* refused before the lock is asked for
DispReject ==
    \E c \in Clients :
        /\ d_variant = "daemon"
        /\ t_pc[c] = "idle"
        /\ t_cmd' = [t_cmd EXCEPT ![c] = "none"]
        /\ t_exit' = [t_exit EXCEPT ![c] = "rejected"]
        /\ UNCHANGED <<d_variant, lease, connected, initialized, t_pc, t_plan,
                       t_ecus, t_sent, bus, torn>>
        /\ UNCHANGED notDispVars

\* state.lock().await / lock_manager(): the guard is obtained
DispLock ==
    \E c \in Clients :
        /\ t_pc[c] = "locking"
        /\ MutexFree
        /\ lease' = c
        /\ t_pc' = [t_pc EXCEPT ![c] = "held"]
        /\ UNCHANGED <<d_variant, connected, initialized, t_cmd, t_plan, t_ecus,
                       t_sent, t_exit, bus, torn>>
        /\ UNCHANGED notDispVars

\* the command is over: its guard is dropped and its result goes back
Finish(c, exit) ==
    /\ lease' = drop_guard(c)
    /\ t_pc' = [t_pc EXCEPT ![c] = "idle"]
    /\ t_plan' = [t_plan EXCEPT ![c] = <<>>]
    /\ t_ecus' = [t_ecus EXCEPT ![c] = 0]
    /\ t_sent' = [t_sent EXCEPT ![c] = 0]
    /\ t_exit' = [t_exit EXCEPT ![c] = exit]

\* Connect, Disconnect, serial_connect, serial_disconnect under the guard
DispControl ==
    \E c \in Clients, opened \in BOOLEAN :
        /\ t_pc[c] = "held"
        /\ t_cmd[c] \in ControlCommands
        /\ IF t_cmd[c] \in {"Connect", "serial_connect"}
           THEN /\ connected' = opened
                /\ Finish(c, IF opened THEN "ok" ELSE "error")
           ELSE /\ opened
                /\ connected' = FALSE
                /\ Finish(c, "ok")
        /\ initialized' = FALSE
        /\ UNCHANGED <<d_variant, t_cmd, bus, torn>>
        /\ UNCHANGED notDispVars

\* a transport that is taken for open whatever its state
NotConnected_never == FALSE

\* state.kline is None / get_port_mut() is None
NotConnected == ~connected

\* a service command finds no kline / no port: "Not connected"
DispNotConnected ==
    \E c \in Clients :
        /\ t_pc[c] = "held"
        /\ t_cmd[c] \notin ControlCommands
        /\ NotConnected
        /\ Finish(c, "not_connected")
        /\ UNCHANGED <<d_variant, connected, initialized, t_cmd, bus, torn>>
        /\ UNCHANGED notDispVars

\* what a command does once one of its requests has returned; read_obd_pid
\* answered negatively goes on with read_manufacturer_pid
Return(c, outcome) ==
    LET cmd  == t_cmd[c]
        head == Head(t_plan[c])
        rest == IF /\ cmd = "ReadPids"
                   /\ head = ReadPidRequest
                   /\ outcome = "negative"
                THEN <<ManufacturerPidRequest>> \o Tail(t_plan[c])
                ELSE Tail(t_plan[c])
        more == CASE cmd = "ReadPids" -> rest # <<>>
                  [] cmd = "bmw_read_all_dtcs" ->
                         head = StartCommunication /\ outcome = "response"
                  [] OTHER -> FALSE
        exit == CASE cmd \in {"ReadPids", "bmw_read_all_dtcs"} -> "ok"
                  [] outcome = "response" -> "ok"
                  [] outcome = "negative" /\ cmd # "InitEcu" -> "ok"
                  [] outcome = "timeout" -> "timeout"
                  [] OTHER -> "error"
    IN
    /\ bus' = IF bus.owner = c THEN [bus EXCEPT !.open = FALSE] ELSE bus
    /\ IF more
       THEN /\ t_pc' = [t_pc EXCEPT ![c] = "held"]
            /\ t_plan' = [t_plan EXCEPT ![c] = rest]
            /\ t_sent' = [t_sent EXCEPT ![c] = 0]
            /\ lease' = same_guard(c)
            /\ UNCHANGED <<t_ecus, t_exit>>
       ELSE IF cmd = "bmw_read_all_dtcs" /\ t_ecus[c] > 1
       THEN /\ lease' = drop_guard(c)
            /\ t_pc' = [t_pc EXCEPT ![c] = "locking"]
            /\ t_plan' = [t_plan EXCEPT ![c] = <<StartCommunication, ReadDtcRequest>>]
            /\ t_ecus' = [t_ecus EXCEPT ![c] = @ - 1]
            /\ t_sent' = [t_sent EXCEPT ![c] = 0]
            /\ UNCHANGED t_exit
       ELSE Finish(c, exit)

\* a service command with the port in hand starts its next request:
\* send_request refuses when the daemon's kline is not initialized,
\* purge or write may fail, otherwise the frame starts going out
DispBegin ==
    \E c \in Clients, wrote \in BOOLEAN :
        /\ t_pc[c] = "held"
        /\ t_cmd[c] \notin ControlCommands
        /\ ~NotConnected
        /\ IF t_plan[c] = <<>>
           THEN /\ wrote
                /\ Finish(c, "ok")
                /\ UNCHANGED bus
           ELSE IF /\ d_variant = "daemon"
                   /\ ~initialized
                   /\ Head(t_plan[c]) # StartCommunication
           THEN /\ wrote
                /\ Return(c, "not_initialized")
           ELSE IF ~wrote
           THEN Return(c, "io_error")
           ELSE /\ t_pc' = [t_pc EXCEPT ![c] = "writing"]
                /\ t_sent' = [t_sent EXCEPT ![c] = 0]
                /\ UNCHANGED <<lease, t_plan, t_ecus, t_exit, bus>>
        /\ UNCHANGED <<d_variant, connected, initialized, t_cmd, torn>>
        /\ UNCHANGED notDispVars

\* a send_request that gives the lease up once its frame is written
DispWriteByte_unlocked ==
    \E c \in Clients :
      LET frame == Wire(Head(t_plan[c]))
          sent  == t_sent[c] + 1
      IN
        /\ t_pc[c] = "writing"
        /\ t_sent' = [t_sent EXCEPT ![c] = sent]
        /\ t_pc' = [t_pc EXCEPT ![c] = IF sent = Len(frame) THEN "reading"
                                       ELSE "writing"]
        /\ bus' = [owner |-> c, open |-> sent < Len(frame)]
        /\ torn' = (torn \/ (bus.open /\ bus.owner # c))
        /\ lease' = IF sent = Len(frame) THEN Free ELSE lease
        /\ UNCHANGED <<d_variant, connected, initialized, t_cmd, t_plan,
                       t_ecus, t_exit>>
        /\ UNCHANGED notDispVars

\* ftdi.write / port.write_all: the next byte of the frame is on the wire
DispWriteByte ==
    \E c \in Clients :
      LET frame == Wire(Head(t_plan[c]))
          sent  == t_sent[c] + 1
      IN
        /\ t_pc[c] = "writing"
        /\ t_sent' = [t_sent EXCEPT ![c] = sent]
        /\ t_pc' = [t_pc EXCEPT ![c] = IF sent = Len(frame) THEN "reading"
                                       ELSE "writing"]
        /\ bus' = [owner |-> c, open |-> sent < Len(frame)]
        /\ torn' = (torn \/ (bus.open /\ bus.owner # c))
        /\ UNCHANGED <<d_variant, lease, connected, initialized, t_cmd, t_plan,
                       t_ecus, t_exit>>
        /\ UNCHANGED notDispVars

\* how the wait for the response ends
ReadOutcomes == {"response", "negative", "timeout", "io_error", "parse_error"}

\* the echo and the response are read, or the read deadline passes: the
\* request returns; a StartCommunication answered marks the kline initialized
DispRead ==
    \E c \in Clients, outcome \in ReadOutcomes :
        /\ t_pc[c] = "reading"
        /\ initialized' = IF /\ d_variant = "daemon"
                             /\ Head(t_plan[c]) = StartCommunication
                             /\ outcome = "response"
                          THEN TRUE ELSE initialized
        /\ Return(c, outcome)
        /\ UNCHANGED <<d_variant, connected, t_cmd, torn>>
        /\ UNCHANGED notDispVars

DispNext ==
    \/ DispSubmit
    \/ DispReject
    \/ DispLock
    \/ DispControl
    \/ DispNotConnected
    \/ DispBegin
    \/ DispWriteByte
    \/ DispRead

(***************************************************************************)
(* Properties of the bus lease (checked under SpecLease)                   *)
(***************************************************************************)

\* C1: at every instant the number of service calls that hold exclusive
\* access to the transport (a live guard of its Mutex) is 0 or 1, however
\* many clients have commands under way.
C1_LeaseCount == Cardinality(Holding) <= 1

\* a call holds the lease in the middle of a frame while another waits for it
C1_Witness ==
    \E c \in Clients, w \in Clients :
        /\ c # w
        /\ t_pc[c] = "writing"
        /\ lease = c
        /\ t_pc[w] = "locking"

C3_NoInterleaving ==
    /\ Cardinality(InFlight) <= 1
    /\ ~torn

\* R1 is half written while R2, a request of another client, waits
C3_Witness ==
    \E c \in Clients, w \in Clients :
        /\ c # w
        /\ t_pc[c] = "writing"
        /\ t_sent[c] > 0
        /\ t_sent[c] < Len(Wire(Head(t_plan[c])))
        /\ t_pc[w] = "locking"
        /\ t_cmd[w] \notin ControlCommands

\* C39: in the multi-ECU DTC read the initialization and the DTC read
\* request for one ECU happen within one uninterrupted hold of the lock,
\* and the lock is released between ECUs: while the DTC read of an ECU is
\* still to return after its init, the command has the lock and no other
\* client holds it, the step from the init to the DTC read keeps the lock,
\* and the step from one ECU to the next frees it and queues for it again.
C39_OneHoldPerEcu ==
    [][\A c \in Clients :
          t_cmd[c] = "bmw_read_all_dtcs" =>
            /\ t_plan[c] = <<ReadDtcRequest>> =>
                  /\ lease = c
                  /\ Holding = {c}
            /\ (/\ t_plan[c] = <<StartCommunication, ReadDtcRequest>>
                /\ t_plan'[c] = <<ReadDtcRequest>>) =>
                  /\ lease = c
                  /\ lease' = c
            /\ (t_ecus'[c] < t_ecus[c] /\ t_ecus'[c] > 0) =>
                  /\ lease = c
                  /\ lease' = Free
                  /\ t_pc'[c] = "locking"]_vars

\* between two ECUs of client c's multi-ECU read, the command of another
\* client has the lock and is writing its frame, while c waits for the lock
C39_Witness ==
    \E c \in Clients, d \in Clients :
        /\ c # d
        /\ t_cmd[c] = "bmw_read_all_dtcs"
        /\ t_ecus[c] > 0
        /\ t_ecus[c] < MaxEcus
        /\ t_pc[c] = "locking"
        /\ lease = d
        /\ t_pc[d] = "writing"
        /\ t_cmd[d] = "bmw_tester_present"

\* C30: a service call issued while the transport is not open is refused
\* with the error "Not connected" and writes nothing to the bus: no request
\* is being written or awaited while the transport is closed, and a service
\* call that has the lease with the transport closed leaves with that error,
\* the bus and the connection as they were.
C30_RefusedUnwritten ==
    [][/\ \A c \in Clients : t_pc[c] \in {"writing", "reading"} => connected
       /\ \A c \in Clients :
             (/\ t_pc[c] = "held"
              /\ t_cmd[c] \notin ControlCommands
              /\ ~connected
              /\ t_pc'[c] # "held")
             => /\ t_pc'[c] = "idle"
                /\ t_exit'[c] = "not_connected"
                /\ t_sent'[c] = 0
                /\ UNCHANGED <<bus, torn, connected, initialized>>]_vars

\* the last command of client c, InitEcu, was refused with "Not connected";
\* the last command of client d, the same InitEcu, wrote the last frame on
\* the bus and returned the ECU's response, and no Connect or Disconnect
\* has come since (either would clear initialized): the refusal came while
\* the transport was closed, that is before the Connect d's call ran under
C30_Witness ==
    \E c \in Clients, d \in Clients :
        /\ c # d
        /\ t_cmd[c] = "InitEcu"
        /\ t_pc[c] = "idle"
        /\ t_exit[c] = "not_connected"
        /\ t_cmd[d] = "InitEcu"
        /\ t_pc[d] = "idle"
        /\ t_exit[d] = "ok"
        /\ connected
        /\ initialized
        /\ bus.owner = d

(***************************************************************************)
(* Receive harness: byte sequences as they come from the bus are handed to *)
(* the decoder of the chosen program.                                      *)
(***************************************************************************)

\* response payloads: C1 EA 8F, 7F 22 78, 7E
RxPayloads == {<<193, 234, 143>>, <<127, 34, 120>>, <<126>>}

\* senders: DME 0x12, EGS 0x18
RxSources == {18, 24}

\* the header forms of ISO 14230: length in the format byte, or in a
\* fourth byte after a format byte with no length bits (0x80, 0xC0)
RxBodies ==
    { <<BitOr(128, Len(p)), 241, s>> \o p : p \in RxPayloads, s \in RxSources }
      \cup { <<f, 241, s, Len(p)>> \o p :
                f \in {128, 192}, p \in RxPayloads, s \in RxSources }

\* checksum bytes seen on the wire: the sum of the bytes before it, that
\* sum with a bit error, the sum a sender forms without the fourth byte,
\* and the last byte of the frame in test_response_parsing
RxChecksums(body) ==
    { WrappingSum(body), (WrappingSum(body) + 1) % 256,
      (WrappingSum(body) + 256 - body[4]) % 256, 34 }

RxBytes == Append(r_body, r_chk)

RxInit ==
    /\ r_variant = "daemon"
    /\ r_body = <<>>
    /\ r_chk = 0
    /\ r_stage = "idle"
    /\ r_decoded = NoDecoded

\* the read of a response returns these bytes
RxReceive ==
    /\ r_stage = "idle"
    /\ \E v \in {"daemon", "app"}, b \in RxBodies :
         \E k \in RxChecksums(b) :
            /\ r_variant' = v
            /\ r_body' = b
            /\ r_chk' = k
    /\ r_stage' = "received"
    /\ UNCHANGED r_decoded
    /\ UNCHANGED notRxVars

\* KwpResponse::parse / KLineMessage::from_bytes applied to the bytes read
RxDecode ==
    /\ r_stage = "received"
    /\ r_decoded' =
         IF r_variant = "daemon"
         THEN LET r == KwpResponse_parse(RxBytes)
              IN  IF r.ok
                  THEN [ok |-> TRUE, source |-> r.source, target |-> r.target,
                        payload |-> <<r.service>> \o r.data]
                  ELSE NoDecoded
         ELSE LET m == KLineMessage_from_bytes(RxBytes)
              IN  IF m.ok
                  THEN [ok |-> TRUE, source |-> m.source, target |-> m.target,
                        payload |-> m.data]
                  ELSE NoDecoded
    /\ r_stage' = "decoded"
    /\ UNCHANGED <<r_variant, r_body, r_chk>>
    /\ UNCHANGED notRxVars

\* the buffer is dropped
RxReset ==
    /\ r_stage = "decoded"
    /\ r_variant' = "daemon"
    /\ r_body' = <<>>
    /\ r_chk' = 0
    /\ r_stage' = "idle"
    /\ r_decoded' = NoDecoded
    /\ UNCHANGED notRxVars

RxNext ==
    \/ RxReceive
    \/ RxDecode
    \/ RxReset

(***************************************************************************)
(* Properties of the decoders (checked under SpecRx)                       *)
(***************************************************************************)

\* C11: decoding a received byte sequence whose checksum byte differs from
\* the modulo-256 sum of the frame bytes before it fails and yields no
\* decoded frame.
C11_BadChecksumRejected ==
    (r_stage = "decoded" /\ r_chk # WrappingSum(r_body)) => ~r_decoded.ok

\* the response to TesterPresent decoded as the daemon decodes it
TesterPresentDecoded ==
    /\ r_decoded.ok
    /\ r_decoded.target = 241
    /\ r_decoded.source = 18
    /\ r_decoded.payload = <<126>>
    /\ is_positive([service |-> r_decoded.payload[1]])

INIT_ADDRESS == 51

\* bit i (0 = least significant) of a byte
Bit(byte, i) == (byte \div (2 ^ i)) % 2

\* u8::count_ones
count_ones(byte) ==
    Bit(byte, 0) + Bit(byte, 1) + Bit(byte, 2) + Bit(byte, 3)
      + Bit(byte, 4) + Bit(byte, 5) + Bit(byte, 6) + Bit(byte, 7)

\* the u8 complement !b
Not(b) == 255 - b

\* FtdiConnection::send_5baud: the levels written in bit-bang mode, each
\* followed by delay_ms(200)
send_5baud(byte) ==
    LET data_bits  == byte % 128
        ones_count == count_ones(data_bits)
        parity_bit == IF ones_count % 2 = 0 THEN 1 ELSE 0
    IN  <<[level |-> 0, ms |-> 200]>>
          \o [i \in 1..7 |-> [level |-> Bit(data_bits, i - 1), ms |-> 200]]
          \o <<[level |-> parity_bit, ms |-> 200], [level |-> 1, ms |-> 200]>>

\* KLineHandler::init_5baud: DTR asserted pulls the line low; start bit,
\* eight data bits, stop bit, each held for 200 ms
KLineHandler_5baud_bits(address) ==
    <<[level |-> 0, ms |-> 200]>>
      \o [i \in 1..8 |-> [level |-> Bit(address, i - 1), ms |-> 200]]
      \o <<[level |-> 1, ms |-> 200]>>

\* the byte whose seven low bits an emission carries after its start bit
EmittedAddress(bits) ==
    bits[2].level + 2 * bits[3].level + 4 * bits[4].level + 8 * bits[5].level
      + 16 * bits[6].level + 32 * bits[7].level + 64 * bits[8].level

\* targets of an init call: DME, EGS, the functional address 0x33
InitAddresses == {DME, EGS, INIT_ADDRESS}

\* when the ECU's answer to StartCommunication is complete, in ms after it
ArrivalTimes == {40, 250, 350}

\* the answer 83 F1 12 C1 EA 8F 20
ScenarioReply == <<131, 241, 18, 193, 234, 143, 32>>

NoRx == [bytes |-> <<>>, at |-> 0]

\* what the ECU may answer to StartCommunication, and when
FastReplies(address) ==
    {NoRx} \cup
    { [bytes |-> b, at |-> t] :
        b \in (InitReplies(address) \cup {ScenarioReply}) \ {<<>>},
        t \in ArrivalTimes }

\* how long the answer to StartCommunication is waited for, in ms
FastInitWindowMs == IF i_variant = "daemon" THEN 200 ELSE 300

\* break and wait before StartCommunication, in ms
FastInitPulse == IF i_variant = "daemon" THEN <<30, 25>> ELSE <<25, 25>>

\* the StartCommunication frame of each program
StartCommunicationFrame(address) ==
    IF i_variant = "daemon"
    THEN KwpMessage_to_bytes(TESTER, address, <<129>>)
    ELSE KLineMessage_to_bytes(KLineMessage_new(address, TESTER, <<129>>))

\* init_fast of each program applied to the bytes read
init_fast_result(rx) ==
    IF rx = <<>> THEN [success |-> FALSE, key_bytes |-> <<>>]
    ELSE IF i_variant = "daemon"
    THEN LET response == KwpResponse_parse(rx)
         IN  IF response.ok /\ response.service = 193
             THEN [success |-> TRUE,
                   key_bytes |-> IF Len(response.data) >= 2
                                 THEN <<response.data[1], response.data[2]>>
                                 ELSE <<143, 234>>]
             ELSE [success |-> FALSE, key_bytes |-> <<>>]
    ELSE LET msg == KLineMessage_from_bytes(rx)
         IN  IF msg.ok /\ msg.data # <<>> /\ msg.data[1] = 193
             THEN [success |-> TRUE, key_bytes |-> <<>>]
             ELSE [success |-> FALSE, key_bytes |-> <<>>]

\* key bytes an ECU may send: E9 8F, 08 08
KeyBytePairs == {<<233, 143>>, <<8, 8>>}

\* the byte init_5baud waits for at the end
ExpectedInverted == IF i_variant = "daemon" THEN Not(INIT_ADDRESS) ELSE Not(i_address)

\* a bus event of the slow init
Ev(name, byte) == [ev |-> name, byte |-> byte]

InitInit ==
    /\ i_variant \in {"daemon", "app"}
    /\ i_call = "none"
    /\ i_fast = FALSE
    /\ i_address = DME
    /\ i_pc = "idle"
    /\ i_bits = <<>>
    /\ i_tx = <<>>
    /\ i_pulse = <<>>
    /\ i_rx = NoRx
    /\ i_log = <<>>
    /\ i_attempts = <<>>
    /\ i_result = "none"
    /\ i_initialized = FALSE
    /\ i_ecu_address = DME
    /\ i_key_bytes = <<>>

\* bmw_kline_init: a failed fast init is followed by init_5baud; InitEcu
\* runs the one method its caller asked for
Fallback(method, outcome) ==
    i_variant = "app" /\ method = "fast" /\ outcome # "ok"

\* an attempt is over: the call goes on with the slow init or returns
EndAttempt(method, outcome) ==
    /\ i_attempts' = Append(i_attempts, [method |-> method, outcome |-> outcome])
    /\ IF Fallback(method, outcome)
       THEN /\ i_pc' = "slow_emit"
            /\ UNCHANGED i_result
       ELSE /\ i_pc' = "idle"
            /\ i_result' = IF i_variant = "app" /\ outcome = "error"
                           THEN "failed" ELSE outcome

\* InitEcu {address, fast} arrives / bmw_kline_init(target) is invoked
InitCall ==
    /\ i_pc = "idle"
    /\ \E address \in InitAddresses, fast \in BOOLEAN :
         /\ i_address' = address
         /\ IF i_variant = "daemon"
            THEN /\ i_call' = "InitEcu"
                 /\ i_fast' = fast
                 /\ i_pc' = IF fast THEN "fast_send" ELSE "slow_emit"
                 /\ i_ecu_address' = address
            ELSE /\ fast
                 /\ i_call' = "bmw_kline_init"
                 /\ i_fast' = TRUE
                 /\ i_pc' = "fast_send"
                 /\ UNCHANGED i_ecu_address
    /\ i_bits' = <<>>
    /\ i_tx' = <<>>
    /\ i_pulse' = <<>>
    /\ i_rx' = NoRx
    /\ i_log' = <<>>
    /\ i_attempts' = <<>>
    /\ i_result' = "none"
    /\ UNCHANGED <<i_variant, i_initialized, i_key_bytes>>
    /\ UNCHANGED notInitVars

\* init_fast: configure, purge, break, wait, write StartCommunication
InitFastSend ==
    /\ i_pc = "fast_send"
    /\ \E io \in BOOLEAN :
         IF ~io
         THEN /\ EndAttempt("fast", "error")
              /\ UNCHANGED <<i_tx, i_pulse, i_rx>>
         ELSE /\ i_pulse' = FastInitPulse
              /\ i_tx' = Append(i_tx, StartCommunicationFrame(i_address))
              /\ \E reply \in FastReplies(i_address) : i_rx' = reply
              /\ i_pc' = "fast_read"
              /\ UNCHANGED <<i_attempts, i_result>>
    /\ UNCHANGED <<i_variant, i_call, i_fast, i_address, i_bits, i_log,
                   i_initialized, i_ecu_address, i_key_bytes>>
    /\ UNCHANGED notInitVars

\* init_fast: echo, read until the window closes, parse, check for 0xC1
InitFastRead ==
    /\ i_pc = "fast_read"
    /\ \E io \in BOOLEAN :
         LET seen == IF i_rx.at <= FastInitWindowMs THEN i_rx.bytes ELSE <<>>
             res  == init_fast_result(seen)
         IN  IF ~io
             THEN /\ i_variant = "daemon"
                  /\ EndAttempt("fast", "error")
                  /\ UNCHANGED <<i_initialized, i_key_bytes>>
             ELSE /\ EndAttempt("fast", IF res.success THEN "ok" ELSE "failed")
                  /\ i_initialized' = IF i_variant = "daemon" /\ res.success
                                      THEN TRUE ELSE i_initialized
                  /\ i_key_bytes' = IF i_variant = "daemon" /\ res.success
                                    THEN res.key_bytes ELSE i_key_bytes
    /\ UNCHANGED <<i_variant, i_call, i_fast, i_address, i_bits, i_tx, i_pulse,
                   i_rx, i_log, i_ecu_address>>
    /\ UNCHANGED notInitVars

\* init_5baud: line setup, then the address byte at 5 baud
InitSlowEmit ==
    /\ i_pc = "slow_emit"
    /\ \E io \in BOOLEAN :
         IF ~io
         THEN /\ EndAttempt("5baud", "error")
              /\ UNCHANGED <<i_bits, i_log>>
         ELSE /\ i_bits' = IF i_variant = "daemon"
                           THEN send_5baud(INIT_ADDRESS)
                           ELSE KLineHandler_5baud_bits(i_address)
              /\ i_log' = Append(i_log, Ev("address",
                              IF i_variant = "daemon" THEN INIT_ADDRESS
                              ELSE i_address))
              /\ i_pc' = "slow_sync"
              /\ UNCHANGED <<i_attempts, i_result>>
    /\ UNCHANGED <<i_variant, i_call, i_fast, i_address, i_tx, i_pulse, i_rx,
                   i_initialized, i_ecu_address, i_key_bytes>>
    /\ UNCHANGED notInitVars

\* init_5baud: wait for the sync byte 0x55 (400 ms daemon, 300 ms
\* application); other bytes are skipped
InitSlowSync ==
    /\ i_pc = "slow_sync"
    /\ \E got \in {"sync", "timeout", "error"} :
         CASE got = "sync" ->
                /\ i_log' = Append(i_log, Ev("sync", 85))
                /\ i_pc' = "slow_kb"
                /\ UNCHANGED <<i_attempts, i_result>>
           [] got = "timeout" ->
                /\ EndAttempt("5baud", IF i_variant = "daemon" THEN "failed"
                                       ELSE "error")
                /\ UNCHANGED i_log
           [] got = "error" ->
                /\ i_variant = "daemon"
                /\ EndAttempt("5baud", "error")
                /\ UNCHANGED i_log
    /\ UNCHANGED <<i_variant, i_call, i_fast, i_address, i_bits, i_tx, i_pulse,
                   i_rx, i_initialized, i_ecu_address, i_key_bytes>>
    /\ UNCHANGED notInitVars

\* init_5baud: KB1 and KB2 are read; the daemon stores them at once
InitSlowKeyBytes ==
    /\ i_pc = "slow_kb"
    /\ \E kb \in KeyBytePairs, n \in 0..2 :
         /\ i_log' = i_log \o [j \in 1..n |->
                                 Ev(IF j = 1 THEN "kb1" ELSE "kb2", kb[j])]
         /\ IF n < 2
            THEN /\ EndAttempt("5baud", "error")
                 /\ UNCHANGED <<i_rx, i_key_bytes>>
            ELSE /\ i_rx' = [bytes |-> kb, at |-> 0]
                 /\ i_key_bytes' = IF i_variant = "daemon" THEN kb ELSE i_key_bytes
                 /\ i_pc' = "slow_ack"
                 /\ UNCHANGED <<i_attempts, i_result>>
    /\ UNCHANGED <<i_variant, i_call, i_fast, i_address, i_bits, i_tx, i_pulse,
                   i_initialized, i_ecu_address>>
    /\ UNCHANGED notInitVars

\* init_5baud: after 25 ms the inverted KB2 is written
InitSlowAck ==
    /\ i_pc = "slow_ack"
    /\ \E io \in BOOLEAN :
         IF ~io
         THEN /\ EndAttempt("5baud", "error")
              /\ UNCHANGED <<i_tx, i_log>>
         ELSE /\ i_tx' = Append(i_tx, <<Not(i_rx.bytes[2])>>)
              /\ i_log' = Append(i_log, Ev("inv_kb2", Not(i_rx.bytes[2])))
              /\ i_pc' = "slow_confirm"
              /\ UNCHANGED <<i_attempts, i_result>>
    /\ UNCHANGED <<i_variant, i_call, i_fast, i_address, i_bits, i_pulse, i_rx,
                   i_initialized, i_ecu_address, i_key_bytes>>
    /\ UNCHANGED notInitVars

\* bytes the ECU may send last: none (-1), CC, the inverted target, 55
ConfirmBytes == {-1, 204, Not(i_address), 85}

\* init_5baud: the last byte is read and compared with the inverted address
InitSlowConfirm ==
    /\ i_pc = "slow_confirm"
    /\ \E byte \in ConfirmBytes :
         IF byte = -1
         THEN /\ EndAttempt("5baud", "error")
              /\ UNCHANGED <<i_log, i_initialized, i_key_bytes>>
         ELSE /\ i_log' = Append(i_log, Ev("inv_addr", byte))
              /\ IF byte = ExpectedInverted
                 THEN /\ EndAttempt("5baud", "ok")
                      /\ i_initialized' = IF i_variant = "daemon" THEN TRUE
                                          ELSE i_initialized
                      /\ i_key_bytes' = i_rx.bytes
                 ELSE /\ EndAttempt("5baud", IF i_variant = "daemon"
                                             THEN "failed" ELSE "error")
                      /\ UNCHANGED <<i_initialized, i_key_bytes>>
    /\ UNCHANGED <<i_variant, i_call, i_fast, i_address, i_bits, i_tx, i_pulse,
                   i_rx, i_ecu_address>>
    /\ UNCHANGED notInitVars

InitNext ==
    \/ InitCall
    \/ InitFastSend
    \/ InitFastRead
    \/ InitSlowEmit
    \/ InitSlowSync
    \/ InitSlowKeyBytes
    \/ InitSlowAck
    \/ InitSlowConfirm

(***************************************************************************)
(* Properties of link initialization (checked under SpecInit)              *)
(***************************************************************************)

\* the last attempt of the call under way or just returned
LastAttempt == i_attempts[Len(i_attempts)]

\* a slow init attempt has ended with success
SlowReady ==
    /\ i_attempts # <<>>
    /\ LastAttempt.method = "5baud"
    /\ LastAttempt.outcome = "ok"

\* C12: in every slow initialization, whatever the target ECU address, the
\* address byte emitted on the bus at 5 baud is 0x33.
C12_AddressIs33 == i_bits # <<>> => EmittedAddress(i_bits) = 51

\* C13: the 5-baud emission is 10 bit periods of 200 ms: start bit low,
\* data bits 0..6 LSB first, an odd-parity bit over those 7 bits, stop bit
\* high; for 0x33 the levels are 0, 1,1,0,0,1,1,0, 1, 1.
C13_TenBitFrame ==
    i_bits # <<>> =>
      LET byte == EmittedAddress(i_bits)
      IN  /\ Len(i_bits) = 10
          /\ \A i \in 1..10 : i_bits[i].ms = 200
          /\ i_bits[1].level = 0
          /\ (count_ones(byte) + i_bits[9].level) % 2 = 1
          /\ i_bits[10].level = 1
          /\ byte = 51 =>
               [i \in 1..10 |-> i_bits[i].level] = <<0, 1, 1, 0, 0, 1, 1, 0, 1, 1>>

\* C14: slow init reaches Ready only after, in this order, sync 0x55,
\* KB1, KB2, the inverted KB2 sent and the inverted address 0xCC received;
\* a timeout or another last byte ends the attempt without Ready.
C14_SlowInitOrder ==
    SlowReady =>
      /\ [j \in 1..Len(i_log) |-> i_log[j].ev]
           = <<"address", "sync", "kb1", "kb2", "inv_kb2", "inv_addr">>
      /\ i_log[2].byte = 85
      /\ i_log[5].byte = Not(i_log[4].byte)
      /\ i_log[6].byte = 204

\* the fast init attempt of the call has ended
FastDone == i_attempts # <<>> /\ i_attempts[1].method = "fast"

\* C15: fast init succeeds only if a response with service byte 0xC1 is
\* received within 200 ms after StartCommunication was sent; any other
\* response, or none within 200 ms, makes it fail and leaves the link not
\* initialized.
C15_FastInitOnlyC1 ==
    FastDone =>
      /\ i_attempts[1].outcome = "ok" =>
            /\ i_rx.bytes # <<>>
            /\ i_rx.bytes[4] = 193
            /\ i_rx.at <= 200
      /\ (i_attempts[1].outcome # "ok" /\ Len(i_attempts) = 1) => ~i_initialized

\* the daemon has ended a fast init from tester 0xF1 to target 0x12
ScenarioA ==
    /\ i_variant = "daemon"
    /\ FastDone
    /\ i_address = DME
    /\ i_tx # <<>>

InitReturned == i_pc = "idle" /\ i_result # "none"

\* no attempt of the call succeeded
AllFailed == \A j \in 1..Len(i_attempts) : i_attempts[j].outcome # "ok"

\* C17 as stated: when the fast init attempt of an init request fails, a
\* slow init attempt follows; the request fails only if both attempts
\* failed; no slow init follows a successful fast init.
C17_FallbackToSlow ==
    (InitReturned /\ i_attempts[1].method = "fast") =>
      /\ i_attempts[1].outcome # "ok" =>
            (Len(i_attempts) = 2 /\ i_attempts[2].method = "5baud")
      /\ i_attempts[1].outcome = "ok" => Len(i_attempts) = 1
      /\ (i_result # "ok") = AllFailed

\* C37: the daemon's link is marked initialized only if the most recent
\* initialization attempt, made for the currently selected ECU address,
\* completed successfully: once an init call has returned a failure the
\* link is not initialized, also when an earlier call had succeeded, and
\* the selected address is the one of that most recent call.
C37_InitializedMeansLastInitOk ==
    (i_variant = "daemon" /\ i_pc = "idle") =>
        /\ i_initialized => i_result = "ok"
        /\ i_call # "none" => i_ecu_address = i_address

(***************************************************************************)
(* Diagnostic session: TesterPresent and the requests around it            *)
(***************************************************************************)

\* the number of exchanges followed on one link
MaxExchanges == 4

\* how a request written to the bus can end: a positive response, a
\* negative response (0x7F), nothing within the read timeout
ExchangeOutcomes == {"positive", "negative", "timeout"}

\* one exchange on the bus
Exchange(op, outcome) == [op |-> op, outcome |-> outcome]

\* KLine::new: a link that is not initialized; the application's port
SessInit ==
    /\ s_variant \in {"daemon", "app"}
    /\ s_initialized = FALSE
    /\ s_log = <<>>

\* Connect: the daemon replaces its KLine by a new one
SessConnect ==
    /\ s_variant = "daemon"
    /\ s_initialized' = FALSE
    /\ UNCHANGED <<s_variant, s_log>>
    /\ UNCHANGED notSessVars

\* InitEcu / bmw_kline_init: the init sequence goes out; the daemon sets
\* initialized when it succeeds and leaves the flag alone when it fails
SessInitEcu ==
    /\ Len(s_log) < MaxExchanges
    /\ \E outcome \in {"positive", "timeout"} :
          /\ s_log' = Append(s_log, Exchange("init", outcome))
          /\ s_initialized' = IF s_variant = "daemon" /\ outcome = "positive"
                              THEN TRUE ELSE s_initialized
    /\ UNCHANGED s_variant
    /\ UNCHANGED notSessVars

\* KLine::tester_present / KLineHandler::tester_present: nothing is sent on
\* a daemon link that is not initialized; otherwise service 0x3E goes out
\* and its outcome is returned to the caller, the link is not touched
SessTesterPresent ==
    /\ Len(s_log) < MaxExchanges
    /\ IF s_variant = "daemon" /\ ~s_initialized
       THEN UNCHANGED s_log
       ELSE \E outcome \in ExchangeOutcomes :
               s_log' = Append(s_log, Exchange("tester_present", outcome))
    /\ UNCHANGED <<s_variant, s_initialized>>
    /\ UNCHANGED notSessVars

\* ReadPid, ReadDtcs, ClearDtcs / bmw_kline_request: send_request writes the
\* service request at once; the daemon refuses on a link not initialized
SessRequest ==
    /\ Len(s_log) < MaxExchanges
    /\ IF s_variant = "daemon" /\ ~s_initialized
       THEN UNCHANGED s_log
       ELSE \E outcome \in ExchangeOutcomes :
               s_log' = Append(s_log, Exchange("service", outcome))
    /\ UNCHANGED <<s_variant, s_initialized>>
    /\ UNCHANGED notSessVars

SessNext ==
    \/ SessConnect
    \/ SessInitEcu
    \/ SessTesterPresent
    \/ SessRequest

\* the j-th exchange is a TesterPresent that got no positive response
Missed(j) ==
    s_log[j].op = "tester_present" /\ s_log[j].outcome # "positive"

\* C18: after two consecutive TesterPresent requests without a positive
\* response the session is marked lost (the link is no longer initialized),
\* and the next exchange on the bus is not a service request: a
\* re-initialization comes first.
C18_LostAfterTwoMisses ==
    \A j \in 1..(Len(s_log) - 1) :
        (Missed(j) /\ Missed(j + 1)) =>
            /\ (j + 1 = Len(s_log) /\ s_variant = "daemon") => ~s_initialized
            /\ (j + 2 <= Len(s_log)) => s_log[j + 2].op # "service"

(***************************************************************************)
(* Service commands of the application: src/app/src-tauri/src/bmw_commands.rs *)
(***************************************************************************)

RECURSIVE BitXor(_, _)
BitXor(a, b) ==
    IF a = 0 THEN b
    ELSE IF b = 0 THEN a
    ELSE ((a + b) % 2) + 2 * BitXor(a \div 2, b \div 2)

\* security::calculate_key_simple
calculate_key_simple(seed) == [j \in 1..Len(seed) |-> BitXor(seed[j], 202)]

\* dpf_routines and dpf_routines::alt, as <<high byte, low byte>>
RESET_ASH_LOADING == <<160, 145>>
START_FORCED_REGEN == <<160, 148>>
STOP_FORCED_REGEN == <<160, 149>>
alt_RESET_ASH == <<0, 97>>
alt_FORCED_REGEN == <<0, 100>>

\* routine::START, routine::STOP
routine_START == 1
routine_STOP == 2

\* the levels a client asks for: standard, programming, development
SecurityLevels == {1, 3, 17}

\* send_request returned Err (no response, or a response that does not
\* decode): a value that is no sequence of bytes
SendErr == <<-1>>

\* the responses an ECU can give to a seed request
SeedResponses(level) ==
    {SendErr, <<127, 39, 18>>, <<80>>, <<103>>, <<103, level>>,
     <<103, level, 0, 0>>, <<103, level, 18, 52>>, <<103, level, 0, 52>>}

\* the responses an ECU can give to a send-key request
KeyResponses(level) ==
    {SendErr, <<103, AsU8(level + 1)>>, <<127, 39, 53>>, <<80>>}

\* the responses an ECU can give to a RoutineControl request
RoutineResponses(request) ==
    {SendErr, <<113>>, <<113, request[2], request[3], request[4]>>,
     <<113, request[2], request[3], request[4], 1>>, <<127, 49, 34>>, <<80>>}

\* the responses an ECU can give to ClearDiagnosticInformation
ClearResponses == {SendErr, <<84>>, <<127, 20, 34>>, <<80>>}

\* a variant of the zero-seed test that never finds the ECU unlocked
seed_all_zero_never(seed) == FALSE

\* seed.iter().all(|&b| b == 0)
seed_all_zero(seed) == \A j \in 1..Len(seed) : seed[j] = 0

\* vec![0x31, sub_function, routine_hi, routine_lo]
RoutineRequest(routine_id, sub_function) ==
    <<49, sub_function, routine_id[1], routine_id[2]>>

\* execute_dpf_routine: the result made of what send_request returned; the
\* slice response[3..] of a positive response shorter than 3 bytes panics
execute_dpf_routine(response) ==
    IF response = SendErr THEN "failure"
    ELSE IF response[1] = 113
         THEN IF Len(response) >= 3 THEN "success" ELSE "panic"
         ELSE "failure"

\* the routine a command starts first, and the one it tries after a failure
PrimaryRoutine(cmd) ==
    IF cmd = "bmw_dpf_reset_ash"
    THEN RoutineRequest(RESET_ASH_LOADING, routine_START)
    ELSE IF cmd = "bmw_dpf_start_regen"
    THEN RoutineRequest(START_FORCED_REGEN, routine_START)
    ELSE RoutineRequest(STOP_FORCED_REGEN, routine_STOP)

AlternativeRoutine(cmd) ==
    IF cmd = "bmw_dpf_reset_ash"
    THEN RoutineRequest(alt_RESET_ASH, routine_START)
    ELSE RoutineRequest(alt_FORCED_REGEN, routine_START)

\* the commands that try an alternative routine id
HasAlternative(cmd) == cmd \in {"bmw_dpf_reset_ash", "bmw_dpf_start_regen"}

RoutineCommands ==
    {"bmw_dpf_reset_ash", "bmw_dpf_start_regen", "bmw_dpf_stop_regen"}

\* no call yet
CmdInit ==
    /\ a_cmd = "none"
    /\ a_level = 0
    /\ a_pc = "idle"
    /\ a_tx = <<>>
    /\ a_rx = <<>>
    /\ a_result = "none"

\* a call returns
CmdReturn(result) ==
    /\ a_pc' = "idle"
    /\ a_result' = result

\* bmw_security_access(level) is invoked: the seed request goes out
CmdSecurityAccess ==
    /\ a_pc = "idle"
    /\ \E level \in SecurityLevels :
          /\ a_level' = level
          /\ a_tx' = << <<39, level>> >>
    /\ a_cmd' = "bmw_security_access"
    /\ a_pc' = "seed"
    /\ a_rx' = <<>>
    /\ a_result' = "none"
    /\ UNCHANGED notCmdVars

\* bmw_security_access: the seed response decides between returning and
\* sending the key
CmdSeedResponse ==
    /\ a_pc = "seed"
    /\ \E response \in SeedResponses(a_level) :
          /\ a_rx' = Append(a_rx, response)
          /\ IF response = SendErr
             THEN CmdReturn("error") /\ UNCHANGED a_tx
             ELSE IF response[1] # 103
             THEN CmdReturn("failure") /\ UNCHANGED a_tx
             ELSE IF Len(response) < 2
             THEN CmdReturn("panic") /\ UNCHANGED a_tx
             ELSE LET seed == SubSeq(response, 3, Len(response))
                  IN  IF seed_all_zero(seed)
                      THEN CmdReturn("success") /\ UNCHANGED a_tx
                      ELSE /\ a_tx' = Append(a_tx, <<39, AsU8(a_level + 1)>>
                                                   \o calculate_key_simple(seed))
                           /\ a_pc' = "key"
                           /\ UNCHANGED a_result
    /\ UNCHANGED <<a_cmd, a_level>>
    /\ UNCHANGED notCmdVars

\* bmw_security_access: the key response is the result
CmdKeyResponse ==
    /\ a_pc = "key"
    /\ \E response \in KeyResponses(a_level) :
          /\ a_rx' = Append(a_rx, response)
          /\ IF response = SendErr THEN CmdReturn("error")
             ELSE IF response[1] = 103 THEN CmdReturn("success")
             ELSE CmdReturn("failure")
    /\ UNCHANGED <<a_cmd, a_level, a_tx>>
    /\ UNCHANGED notCmdVars

\* bmw_dpf_reset_ash / bmw_dpf_start_regen / bmw_dpf_stop_regen is invoked:
\* the primary routine request goes out
CmdRoutine ==
    /\ a_pc = "idle"
    /\ \E cmd \in RoutineCommands :
          /\ a_cmd' = cmd
          /\ a_tx' = <<PrimaryRoutine(cmd)>>
    /\ a_level' = 0
    /\ a_pc' = "routine"
    /\ a_rx' = <<>>
    /\ a_result' = "none"
    /\ UNCHANGED notCmdVars

\* the response to the primary routine: a result without success makes
\* reset_ash and start_regen send the alternative routine id
CmdRoutineResponse ==
    /\ a_pc = "routine"
    /\ \E response \in RoutineResponses(a_tx[1]) :
          /\ a_rx' = Append(a_rx, response)
          /\ LET result == execute_dpf_routine(response)
             IN  IF result = "failure" /\ HasAlternative(a_cmd)
                 THEN /\ a_tx' = Append(a_tx, AlternativeRoutine(a_cmd))
                      /\ a_pc' = "alternative"
                      /\ UNCHANGED a_result
                 ELSE CmdReturn(result) /\ UNCHANGED a_tx
    /\ UNCHANGED <<a_cmd, a_level>>
    /\ UNCHANGED notCmdVars

\* the response to the alternative routine is the result
CmdAlternativeResponse ==
    /\ a_pc = "alternative"
    /\ \E response \in RoutineResponses(a_tx[2]) :
          /\ a_rx' = Append(a_rx, response)
          /\ CmdReturn(execute_dpf_routine(response))
    /\ UNCHANGED <<a_cmd, a_level, a_tx>>
    /\ UNCHANGED notCmdVars

\* bmw_clear_dtcs_kline is invoked: 14 FF FF FF goes out
CmdClearDtcs ==
    /\ a_pc = "idle"
    /\ a_cmd' = "bmw_clear_dtcs_kline"
    /\ a_level' = 0
    /\ a_tx' = << <<20, 255, 255, 255>> >>
    /\ a_pc' = "clear"
    /\ a_rx' = <<>>
    /\ a_result' = "none"
    /\ UNCHANGED notCmdVars

\* bmw_clear_dtcs_kline: the response is the result
CmdClearResponse ==
    /\ a_pc = "clear"
    /\ \E response \in ClearResponses :
          /\ a_rx' = Append(a_rx, response)
          /\ IF response = SendErr THEN CmdReturn("error")
             ELSE IF response[1] = 84 THEN CmdReturn("success")
             ELSE CmdReturn("error")
    /\ UNCHANGED <<a_cmd, a_level, a_tx>>
    /\ UNCHANGED notCmdVars

CmdNext ==
    \/ CmdSecurityAccess
    \/ CmdSeedResponse
    \/ CmdKeyResponse
    \/ CmdRoutine
    \/ CmdRoutineResponse
    \/ CmdAlternativeResponse
    \/ CmdClearDtcs
    \/ CmdClearResponse

\* a positive seed response that has its sub-function byte and no seed byte
\* other than zero
ZeroSeedResponse(response) ==
    /\ response # SendErr
    /\ Len(response) >= 2
    /\ response[1] = 103
    /\ \A j \in 3..Len(response) : response[j] = 0

\* the request is a send-key of the call's level: 27 LL+1 ...
IsSendKey(request) ==
    Len(request) >= 2 /\ request[1] = 39 /\ request[2] = AsU8(a_level + 1)

\* C19: in a SecurityAccess call at level LL whose positive seed response
\* carries only zero seed bytes, the call reports success and no send-key
\* request (27 LL+1) is among the requests of the call.
C19_ZeroSeedNoKey ==
    (/\ a_cmd = "bmw_security_access"
     /\ Len(a_rx) >= 1
     /\ ZeroSeedResponse(a_rx[1])) =>
        /\ a_pc = "idle"
        /\ a_result = "success"
        /\ \A j \in 1..Len(a_tx) : ~IsSendKey(a_tx[j])

\* a level 1 call answered 67 01 00 00 has returned success
C19_Witness ==
    /\ a_cmd = "bmw_security_access"
    /\ a_level = 1
    /\ a_rx = << <<103, 1, 0, 0>> >>
    /\ a_tx = << <<39, 1>> >>
    /\ a_result = "success"

\* the side-effecting kind of a request, "none" for a read
SideEffect(request) ==
    IF request[1] = 20 THEN "clear"
    ELSE IF request[1] = 49 /\ request[2] = routine_START THEN "routine start"
    ELSE IF request[1] = 49 /\ request[2] = routine_STOP THEN "routine stop"
    ELSE IF request[1] = 39 /\ request[2] % 2 = 0 THEN "send key"
    ELSE "none"

\* the j-th request of the call failed: no response, or one that is not
\* the positive response to its service
RequestFailed(j) ==
    j <= Len(a_rx) /\ (a_rx[j] = SendErr \/ a_rx[j][1] # a_tx[j][1] + 64)

\* C20: once a side-effecting request of a call has failed, timed out or
\* been answered negatively, no further request of the same kind is sent
\* within that call.
C20_NoImplicitRetry ==
    \A j \in 1..Len(a_tx) : \A k \in 1..Len(a_tx) :
        (j < k /\ SideEffect(a_tx[j]) # "none" /\ RequestFailed(j)) =>
            SideEffect(a_tx[k]) # SideEffect(a_tx[j])

(***************************************************************************)
(* ISO-TP transport of the application: src/app/src-tauri/src/dcan.rs      *)
(***************************************************************************)

\* longest payload handed to send_message
MaxIsoTpLen == 4096

\* payload lengths around the 7/8 boundary, the wrap of the sequence number
\* (6 + 15 * 7 = 111) and the 12-bit length limit
IsoTpLens == {n \in {0, 1, 6, 7, 8, 13, 14, 111, 112, 118, 119, 4095} :
                 n <= MaxIsoTpLen} \cup {MaxIsoTpLen}

\* to_can_data: the 8 data bytes of a frame start as zeros
Pad8(bytes) == bytes \o [j \in 1..(8 - Len(bytes)) |-> 0]

\* a variant of the Single Frame test that segments 7 bytes
fits_single_six(data) == Len(data) <= 6

\* send_message: data.len() <= 7
fits_single(data) == Len(data) <= 7

\* IsoTpFrame::single(data).to_can_data()
IsoTpFrame_single(data) == Pad8(<<Len(data)>> \o data)

\* IsoTpFrame::first(data, total_length).to_can_data()
IsoTpFrame_first(data, total_length) ==
    Pad8(<<BitOr(16, BitAnd(AsU8(total_length \div 256), 15)),
           total_length % 256>> \o SubSeq(data, 1, Min(6, Len(data))))

\* IsoTpFrame::consecutive(data, sequence).to_can_data()
IsoTpFrame_consecutive(data, sequence) ==
    Pad8(<<BitOr(32, BitAnd(sequence, 15))>> \o data)

\* IsoTpFrame::flow_control(flag, block_size, separation_time).to_can_data()
IsoTpFrame_flow_control(flag, block_size, separation_time) ==
    Pad8(<<BitOr(48, BitAnd(flag, 15)), block_size, separation_time>>)

\* from_can_data failed
IsoTpErr == [frame_type |-> -1, data |-> <<>>, sequence |-> 0, total_length |-> 0]

\* IsoTpFrame::from_can_data
IsoTpFrame_from_can_data(data) ==
    IF Len(data) = 0 THEN IsoTpErr
    ELSE
    LET pci == data[1]
        frame_type == BitAnd(pci, 240)
        low == BitAnd(pci, 15)
    IN  IF frame_type = 0
        THEN IF Len(data) < low + 1 THEN IsoTpErr
             ELSE [frame_type |-> 0, data |-> SubSeq(data, 2, low + 1),
                   sequence |-> 0, total_length |-> 0]
        ELSE IF frame_type = 16
        THEN IF Len(data) < 8 THEN IsoTpErr
             ELSE [frame_type |-> 16, data |-> SubSeq(data, 3, 8),
                   sequence |-> 0, total_length |-> low * 256 + data[2]]
        ELSE IF frame_type = 32
        THEN [frame_type |-> 32, data |-> SubSeq(data, 2, Len(data)),
              sequence |-> low, total_length |-> 0]
        ELSE IF frame_type = 48
        THEN [frame_type |-> 48,
              data |-> <<low, IF Len(data) >= 2 THEN data[2] ELSE 0,
                         IF Len(data) >= 3 THEN data[3] ELSE 0>>,
              sequence |-> 0, total_length |-> 0]
        ELSE IsoTpErr

\* a variant of the sequence step that skips 0 after 15
next_sequence_skip0(sequence) == IF sequence = 15 THEN 1 ELSE sequence + 1

\* (sequence + 1) & 0x0F
next_sequence(sequence) == BitAnd(sequence + 1, 15)

\* a variant of the sequence test that accepts every Consecutive Frame
sequence_matches_any(seq, expected_seq) == TRUE

\* receive_isotp_message: seq != expected_seq is a sequence error
sequence_matches(seq, expected_seq) == seq = expected_seq

\* a variant of the final trim that keeps the padding of the last frame
truncate_never(result, total_len) == result

\* result.truncate(total_len)
truncate(result, total_len) == SubSeq(result, 1, Min(Len(result), total_len))

\* nothing returned yet / Err / Ok(data)
NotReturned == [ok |-> FALSE, err |-> "none", data |-> <<>>]

TpErr(err) == [ok |-> FALSE, err |-> err, data |-> <<>>]

TpOk(data) == [ok |-> TRUE, err |-> "none", data |-> data]

\* what receive_can_frame gives send_message while it waits for the Flow
\* Control frame: nothing within 100 ms, a Flow Control frame with flag
\* Continue, Wait or Overflow, or a frame of another type
FcReplies ==
    {<<>>, IsoTpFrame_flow_control(0, 0, 0), IsoTpFrame_flow_control(1, 0, 0),
     IsoTpFrame_flow_control(2, 0, 0), IsoTpFrame_single(<<127, 34, 17>>)}

\* the frame indices at which the arriving stream may carry another
\* sequence number: the 1st, 2nd and 16th Consecutive Frame
TamperAt == {2, 3, 17}

\* the frame with its sequence number moved by d
Resequenced(frame, d) ==
    [frame EXCEPT ![1] = BitOr(32, (BitAnd(frame[1], 15) + d) % 16)]

\* the frame streams that can arrive for a message sent as `frames`: the
\* frames themselves, the frames without the last, and the frames with the
\* sequence number of one Consecutive Frame changed
Wires(frames) ==
    {frames}
    \cup (IF Len(frames) >= 2 THEN {SubSeq(frames, 1, Len(frames) - 1)} ELSE {})
    \cup {[frames EXCEPT ![k] = Resequenced(frames[k], d)] :
             k \in {x \in TamperAt : x <= Len(frames)}, d \in {1, 15}}

\* no call yet
TpInit ==
    /\ tp_payload = <<>>
    /\ tp_pc = "idle"
    /\ tp_offset = 0
    /\ tp_sequence = 0
    /\ tp_frames = <<>>
    /\ tp_fc = -1
    /\ tp_wire = <<>>
    /\ tp_rpc = "idle"
    /\ tp_next = 1
    /\ tp_total_len = 0
    /\ tp_expected_seq = 0
    /\ tp_result = <<>>
    /\ tp_seen = <<>>
    /\ tp_returned = NotReturned

\* no call is under way
TpCallOver ==
    tp_pc \in {"idle", "failed"} \/ tp_rpc \in {"done", "failed"}

\* send_message(data) is called: empty data is refused, data of up to 7
\* bytes goes out as a Single Frame, longer data starts with a First Frame
TpSendMessage ==
    /\ TpCallOver
    /\ \E n \in IsoTpLens, f \in {1, 255} :
          LET data == Pattern(n, f, 1)
          IN  /\ tp_payload' = data
              /\ IF Len(data) = 0
                 THEN /\ tp_pc' = "failed"
                      /\ tp_frames' = <<>>
                 ELSE IF fits_single(data)
                 THEN /\ tp_pc' = "sent"
                      /\ tp_frames' = <<IsoTpFrame_single(data)>>
                 ELSE /\ tp_pc' = "wait_fc"
                      /\ tp_frames' =
                            <<IsoTpFrame_first(data, Len(data) % 65536)>>
    /\ tp_offset' = 0
    /\ tp_sequence' = 0
    /\ tp_fc' = -1
    /\ tp_wire' = <<>>
    /\ tp_rpc' = "idle"
    /\ tp_next' = 1
    /\ tp_total_len' = 0
    /\ tp_expected_seq' = 0
    /\ tp_result' = <<>>
    /\ tp_seen' = <<>>
    /\ tp_returned' = NotReturned
    /\ UNCHANGED notTpVars

\* send_message: the wait for the Flow Control frame ends; anything but a
\* Flow Control frame with flag 0 makes the call return Err
TpFlowControl ==
    /\ tp_pc = "wait_fc"
    /\ \E reply \in FcReplies :
          LET fc_frame == IsoTpFrame_from_can_data(reply)
              fc_flag  == fc_frame.data[1]
          IN  IF reply = <<>> \/ fc_frame.frame_type # 48
              THEN /\ tp_pc' = "failed"
                   /\ UNCHANGED <<tp_fc, tp_offset, tp_sequence>>
              ELSE /\ tp_fc' = fc_flag
                   /\ IF fc_flag # 0
                      THEN /\ tp_pc' = "failed"
                           /\ UNCHANGED <<tp_offset, tp_sequence>>
                      ELSE /\ tp_pc' = "cf"
                           /\ tp_offset' = 6
                           /\ tp_sequence' = 1
    /\ UNCHANGED <<tp_payload, tp_frames, tp_wire, tp_rpc, tp_next, tp_total_len,
                   tp_expected_seq, tp_result, tp_seen, tp_returned>>
    /\ UNCHANGED notTpVars

\* send_message: one turn of the loop that sends Consecutive Frames
TpConsecutive ==
    /\ tp_pc = "cf"
    /\ LET chunk_end == Min(tp_offset + 7, Len(tp_payload))
           chunk == SubSeq(tp_payload, tp_offset + 1, chunk_end)
       IN  /\ tp_frames' =
                 Append(tp_frames, IsoTpFrame_consecutive(chunk, tp_sequence))
           /\ tp_offset' = chunk_end
           /\ tp_sequence' = next_sequence(tp_sequence)
           /\ tp_pc' = IF chunk_end < Len(tp_payload) THEN "cf" ELSE "sent"
    /\ UNCHANGED <<tp_payload, tp_fc, tp_wire, tp_rpc, tp_next, tp_total_len,
                   tp_expected_seq, tp_result, tp_seen, tp_returned>>
    /\ UNCHANGED notTpVars

\* send_message enters receive_isotp_message; the frames that will arrive
\* are those of a message segmented like the one just sent
TpReceive ==
    /\ tp_pc = "sent"
    /\ tp_rpc = "idle"
    /\ tp_wire' \in Wires(tp_frames)
    /\ tp_rpc' = "first"
    /\ UNCHANGED <<tp_payload, tp_pc, tp_offset, tp_sequence, tp_frames, tp_fc,
                   tp_next, tp_total_len, tp_expected_seq, tp_result, tp_seen,
                   tp_returned>>
    /\ UNCHANGED notTpVars

\* receive_isotp_message returns
TpReturn(returned) ==
    /\ tp_rpc' = IF returned.ok THEN "done" ELSE "failed"
    /\ tp_returned' = returned

\* receive_isotp_message: the first frame; a Single Frame is the message, a
\* First Frame starts the reassembly (no Flow Control frame is written)
TpReceiveFirst ==
    /\ tp_rpc = "first"
    /\ IF tp_next > Len(tp_wire)
       THEN /\ TpReturn(TpErr("timeout"))
            /\ UNCHANGED <<tp_next, tp_total_len, tp_expected_seq, tp_result>>
       ELSE LET first == IsoTpFrame_from_can_data(tp_wire[tp_next])
            IN  /\ tp_next' = tp_next + 1
                /\ IF first.frame_type = 0
                   THEN /\ TpReturn(TpOk(first.data))
                        /\ UNCHANGED <<tp_total_len, tp_expected_seq, tp_result>>
                   ELSE IF first.frame_type = 16
                   THEN /\ tp_total_len' = first.total_length
                        /\ tp_expected_seq' = 1
                        /\ IF Len(first.data) < first.total_length
                           THEN /\ tp_result' = first.data
                                /\ tp_rpc' = "cf"
                                /\ UNCHANGED tp_returned
                           ELSE /\ tp_result' =
                                      truncate(first.data, first.total_length)
                                /\ TpReturn(TpOk(truncate(first.data,
                                                          first.total_length)))
                   ELSE /\ TpReturn(TpErr("type"))
                        /\ UNCHANGED <<tp_total_len, tp_expected_seq, tp_result>>
    /\ UNCHANGED <<tp_payload, tp_pc, tp_offset, tp_sequence, tp_frames, tp_fc,
                   tp_wire, tp_seen>>
    /\ UNCHANGED notTpVars

\* receive_isotp_message: one turn of the loop that reads Consecutive Frames
TpReceiveConsecutive ==
    /\ tp_rpc = "cf"
    /\ IF tp_next > Len(tp_wire)
       THEN /\ TpReturn(TpErr("timeout"))
            /\ UNCHANGED <<tp_next, tp_expected_seq, tp_result, tp_seen>>
       ELSE LET cf == IsoTpFrame_from_can_data(tp_wire[tp_next])
            IN  /\ tp_next' = tp_next + 1
                /\ IF cf.frame_type # 32
                   THEN /\ TpReturn(TpErr("type"))
                        /\ UNCHANGED <<tp_expected_seq, tp_result, tp_seen>>
                   ELSE /\ tp_seen' = Append(tp_seen, cf.sequence)
                        /\ IF ~sequence_matches(cf.sequence, tp_expected_seq)
                           THEN /\ TpReturn(TpErr("sequence"))
                                /\ UNCHANGED <<tp_expected_seq, tp_result>>
                           ELSE LET result == tp_result \o cf.data
                                IN  /\ tp_expected_seq' =
                                          next_sequence(tp_expected_seq)
                                    /\ IF Len(result) < tp_total_len
                                       THEN /\ tp_result' = result
                                            /\ UNCHANGED <<tp_rpc, tp_returned>>
                                       ELSE /\ tp_result' =
                                                  truncate(result, tp_total_len)
                                            /\ TpReturn(TpOk(truncate(result,
                                                                tp_total_len)))
    /\ UNCHANGED <<tp_payload, tp_pc, tp_offset, tp_sequence, tp_frames, tp_fc,
                   tp_wire, tp_total_len>>
    /\ UNCHANGED notTpVars

TpNext ==
    \/ TpSendMessage
    \/ TpFlowControl
    \/ TpConsecutive
    \/ TpReceive
    \/ TpReceiveFirst
    \/ TpReceiveConsecutive

\* the frames that arrive are exactly the frames send_message wrote
Loopback == tp_wire = tp_frames

\* the frame type nibble of a CAN frame
FrameType(frame) == BitAnd(frame[1], 240)

\* C21: for every payload P of 1 to 4095 bytes, the CAN frames the sender
\* produced for P, consumed by the receiver, are reassembled into exactly P.
C21_RoundTrip ==
    (/\ tp_rpc \in {"done", "failed"}
     /\ Loopback
     /\ Len(tp_payload) >= 1
     /\ Len(tp_payload) <= 4095) => tp_returned = TpOk(tp_payload)

\* a payload of 4095 bytes went through 1 First Frame and 585 Consecutive
\* Frames and came back whole
C21_Witness ==
    /\ tp_rpc = "done"
    /\ Loopback
    /\ Len(tp_payload) = 4095
    /\ Len(tp_frames) = 586
    /\ tp_returned = TpOk(tp_payload)

\* C22: a payload of exactly 7 bytes goes out as exactly one Single Frame
\* and no First Frame; a payload of 8 bytes goes out as exactly one First
\* Frame followed by exactly one Consecutive Frame.
C22_SevenSingleEightSegmented ==
    /\ Len(tp_payload) = 7 =>
          /\ tp_pc = "sent"
          /\ Len(tp_frames) = 1
          /\ FrameType(tp_frames[1]) = 0
    /\ Len(tp_payload) = 8 =>
          /\ FrameType(tp_frames[1]) = 16
          /\ Len(tp_frames) <= 2
          /\ tp_pc = "sent" =>
                (Len(tp_frames) = 2 /\ FrameType(tp_frames[2]) = 32)

\* the 8 bytes have gone out in a First Frame and one Consecutive Frame
C22_Witness ==
    /\ Len(tp_payload) = 8
    /\ tp_pc = "sent"
    /\ tp_fc = 0
    /\ Len(tp_frames) = 2
    /\ tp_frames[2] = <<33, tp_payload[7], tp_payload[8], 0, 0, 0, 0, 0>>

\* C23: the k-th Consecutive Frame of a segmented message carries sequence
\* number k mod 16: 1 first, and 0 (not 1) after 15.
C23_SequenceNumbers ==
    \A k \in 1..(Len(tp_frames) - 1) : tp_frames[k + 1][1] = 32 + (k % 16)

\* the 15th, 16th and 17th Consecutive Frame went out numbered 15, 0, 1
C23_Witness ==
    /\ Len(tp_frames) >= 18
    /\ tp_frames[16][1] = 47
    /\ tp_frames[17][1] = 32
    /\ tp_frames[18][1] = 33

\* C24: the receiver accepts the k-th Consecutive Frame only if its
\* sequence number is k mod 16; a Consecutive Frame with another sequence
\* number ends the reception with a sequence error and no payload.
C24_SequenceChecked ==
    \A k \in 1..Len(tp_seen) :
        IF tp_seen[k] = k % 16
        THEN ~(k = Len(tp_seen) /\ tp_returned.err = "sequence")
        ELSE /\ k = Len(tp_seen)
             /\ tp_rpc = "failed"
             /\ tp_returned = TpErr("sequence")

\* the 16th Consecutive Frame arrived numbered 1 instead of 0 and the
\* reception ended with a sequence error
C24_Witness ==
    /\ Len(tp_seen) = 16
    /\ tp_seen[15] = 15
    /\ tp_seen[16] = 1
    /\ tp_rpc = "failed"
    /\ tp_returned = TpErr("sequence")

\* C25: a Flow Control frame with flag 1 (Wait) received after the First
\* Frame makes the sender wait for the next Flow Control frame: it sends no
\* Consecutive Frame and does not abort.
C25_WaitRestartsWait ==
    tp_fc = 1 => (tp_pc = "wait_fc" /\ Len(tp_frames) = 1)

\* C26: once the receiver has taken a First Frame and goes on to read
\* Consecutive Frames, a Flow Control frame (Continue, block size 0,
\* separation time 0) has been written to the port.
C26_FlowControlSent ==
    tp_rpc = "cf" =>
        tp_frames[Len(tp_frames)] = IsoTpFrame_flow_control(0, 0, 0)

(***************************************************************************)
(* DTC decoding: src/app/src-tauri/src/bmw.rs, src/daemon-ftdi/src/kline.rs *)
(***************************************************************************)

\* the digits of {:X}
HexDigits ==
    <<"0", "1", "2", "3", "4", "5", "6", "7", "8", "9", "A", "B", "C", "D", "E", "F">>

\* format!("{:X}", n): uppercase hexadecimal, no padding
RECURSIVE format_X(_)
format_X(n) ==
    IF n < 16 THEN <<HexDigits[n + 1]>>
    ELSE Append(format_X(n \div 16), HexDigits[(n % 16) + 1])

\* format!("{:04X}", n): zeros in front up to a width of 4
format_04X(n) ==
    LET digits == format_X(n)
    IN  [j \in 1..(4 - Len(digits)) |-> "0"] \o digits

\* the category letter of the two top bits
Category(bits) == <<"P", "C", "B", "U">>[bits + 1]

\* Dtc::bytes_to_code
Dtc_bytes_to_code(high, low) ==
    LET category == Category(BitAnd(high \div 64, 3))
        number == BitAnd(high, 63) * 256 + low
    IN  <<category>> \o format_04X(number)

\* a variant of decode_dtc that prints the second digit from all four bits
decode_dtc_nibble(code) ==
    LET first_char == Category(BitAnd(code \div 16384, 3))
    IN  <<first_char>> \o format_X(BitAnd(code \div 4096, 15))
            \o format_X(BitAnd(code \div 256, 15))
            \o format_X(BitAnd(code \div 16, 15))
            \o format_X(BitAnd(code, 15))

\* decode_dtc (the second digit is printed in decimal, it is 0..3)
decode_dtc(code) ==
    LET first_char == Category(BitAnd(code \div 16384, 3))
        second_digit == BitAnd(code \div 4096, 3)
        third_digit == BitAnd(code \div 256, 15)
        fourth_digit == BitAnd(code \div 16, 15)
        fifth_digit == BitAnd(code, 15)
    IN  <<first_char>> \o format_X(second_digit) \o format_X(third_digit)
            \o format_X(fourth_digit) \o format_X(fifth_digit)

\* a variant of from_byte with the masks of pending and confirmed exchanged
DtcStatus_from_byte_swapped(byte) ==
    [test_failed |-> BitAnd(byte, 1) # 0,
     test_failed_this_cycle |-> BitAnd(byte, 2) # 0,
     pending |-> BitAnd(byte, 8) # 0,
     confirmed |-> BitAnd(byte, 4) # 0,
     test_not_completed_since_clear |-> BitAnd(byte, 16) # 0,
     test_failed_since_clear |-> BitAnd(byte, 32) # 0,
     test_not_completed_this_cycle |-> BitAnd(byte, 64) # 0,
     warning_indicator_requested |-> BitAnd(byte, 128) # 0,
     raw |-> byte]

\* DtcStatus::from_byte of the application
DtcStatus_from_byte(byte) ==
    [test_failed |-> BitAnd(byte, 1) # 0,
     test_failed_this_cycle |-> BitAnd(byte, 2) # 0,
     pending |-> BitAnd(byte, 4) # 0,
     confirmed |-> BitAnd(byte, 8) # 0,
     test_not_completed_since_clear |-> BitAnd(byte, 16) # 0,
     test_failed_since_clear |-> BitAnd(byte, 32) # 0,
     test_not_completed_this_cycle |-> BitAnd(byte, 64) # 0,
     warning_indicator_requested |-> BitAnd(byte, 128) # 0,
     raw |-> byte]

\* DtcStatus::from of the daemon; the ReadDtcs arm returns the status byte
\* itself next to the flags ("status": status)
DtcStatus_from(status) ==
    [test_failed |-> BitAnd(status, 1) # 0,
     test_failed_this_cycle |-> BitAnd(status, 2) # 0,
     pending |-> BitAnd(status, 4) # 0,
     confirmed |-> BitAnd(status, 8) # 0,
     test_not_completed_since_clear |-> BitAnd(status, 16) # 0,
     test_failed_since_clear |-> BitAnd(status, 32) # 0,
     test_not_completed_this_cycle |-> BitAnd(status, 64) # 0,
     warning_indicator_requested |-> BitAnd(status, 128) # 0,
     raw |-> status]

\* the records decoded: every byte pair, and every status byte
DtcRecords ==
    {<<high, low, 0>> : high \in 0..255, low \in 0..255}
    \cup {<<1, 35, status>> : status \in 0..255}

\* nothing decoded yet
DtcInit ==
    /\ g_variant = "daemon"
    /\ g_bytes = <<0, 0, 0>>
    /\ g_stage = "idle"
    /\ g_code = <<>>
    /\ g_status = DtcStatus_from(0)

\* Dtc::from_bytes / the ReadDtcs arm decode one record: the daemon joins
\* the two bytes into the u16 that decode_dtc takes
DtcDecode ==
    /\ g_stage = "idle"
    /\ \E v \in {"daemon", "app"}, bytes \in DtcRecords :
          /\ g_variant' = v
          /\ g_bytes' = bytes
          /\ g_code' = IF v = "app"
                       THEN Dtc_bytes_to_code(bytes[1], bytes[2])
                       ELSE decode_dtc(bytes[1] * 256 + bytes[2])
          /\ g_status' = IF v = "app"
                         THEN DtcStatus_from_byte(bytes[3])
                         ELSE DtcStatus_from(bytes[3])
    /\ g_stage' = "decoded"
    /\ UNCHANGED notDtcVars

\* the decoded record has been returned; the next one starts afresh
DtcReset ==
    /\ g_stage = "decoded"
    /\ g_variant' = "daemon"
    /\ g_bytes' = <<0, 0, 0>>
    /\ g_stage' = "idle"
    /\ g_code' = <<>>
    /\ g_status' = DtcStatus_from(0)
    /\ UNCHANGED notDtcVars

DtcNext ==
    \/ DtcDecode
    \/ DtcReset

\* C27: for every byte pair (high, low) the code is exactly five
\* characters: the letter P, C, B or U chosen by the top two bits of high
\* (00, 01, 10, 11), then the other 14 bits as exactly four uppercase
\* hexadecimal digits.
C27_DtcCodeFormat ==
    g_stage = "decoded" =>
        LET high == g_bytes[1]
            low == g_bytes[2]
            number == (high % 64) * 256 + low
        IN  /\ Len(g_code) = 5
            /\ g_code[1] = (CASE high \div 64 = 0 -> "P"
                              [] high \div 64 = 1 -> "C"
                              [] high \div 64 = 2 -> "B"
                              [] high \div 64 = 3 -> "U")
            /\ g_code[2] = HexDigits[(number \div 4096) + 1]
            /\ g_code[3] = HexDigits[((number \div 256) % 16) + 1]
            /\ g_code[4] = HexDigits[((number \div 16) % 16) + 1]
            /\ g_code[5] = HexDigits[(number % 16) + 1]

\* the daemon decoded F0 2A as U302A
C27_Witness ==
    /\ g_stage = "decoded"
    /\ g_variant = "daemon"
    /\ g_bytes[1] = 240
    /\ g_bytes[2] = 42
    /\ g_code = <<"U", "3", "0", "2", "A">>

DidRequest(did) == <<34, did \div 256, did % 256>>

\* response.get(i).copied().unwrap_or(0), i counted from 0
get_or_0(response, i) == IF i < Len(response) THEN response[i + 1] ELSE 0

\* ((response[1] as u16) << 8) | (response[2] as u16)
resp_did(response) == get_or_0(response, 1) * 256 + get_or_0(response, 2)

\* an identifier check that lets every response through
did_matches_any(resp, did) == TRUE

\* resp_did == did
did_matches(resp, did) == resp = did

\* &response[3..]: panics when the response has fewer than 3 bytes
DidData(response) == SubSeq(response, 4, Len(response))

DidErr(e) == [status |-> "err", err |-> e, values |-> <<>>]

\* Ok with the values handed back, each for the identifier it is filed under
DidOk(values) == [status |-> "ok", err |-> "none", values |-> values]

\* the thread panicked: nothing is returned
DidPanic == [status |-> "panic", err |-> "slice index", values |-> <<>>]

\* DCanHandler::read_data_by_id once send_message has returned
DCanHandler_read_data_by_id(did, response) ==
    IF response = SendErr THEN DidErr("send")
    ELSE IF get_or_0(response, 0) = 98 /\ Len(response) >= 1 /\ Len(response) >= 3
    THEN IF did_matches(resp_did(response), did)
         THEN DidOk(<<[did |-> did, raw |-> DidData(response)]>>)
         ELSE DidErr("DID mismatch")
    ELSE IF Len(response) >= 1 /\ response[1] = 127
    THEN DidErr("NRC")
    ELSE DidErr("Unexpected response")

\* read_did_kline once KLineHandler::send_request has returned
read_did_kline(did, response) ==
    IF response = SendErr THEN DidErr("send")
    ELSE IF ~(Len(response) >= 1 /\ response[1] = 98)
    THEN IF Len(response) >= 1 /\ response[1] = 127
         THEN DidErr("NRC")
         ELSE DidErr("Unexpected response")
    ELSE IF ~did_matches(resp_did(response), did)
    THEN DidErr("DID mismatch")
    ELSE IF Len(response) < 3
    THEN DidPanic
    ELSE DidOk(<<[did |-> did, raw |-> DidData(response)]>>)

\* read_dids_kline with dids = [did]: one turn of its loop, then Ok(results)
read_dids_kline(did, response) ==
    IF response = SendErr THEN DidOk(<<>>)
    ELSE IF Len(response) >= 1 /\ response[1] = 98 /\ Len(response) >= 3
    THEN IF did_matches(resp_did(response), did)
         THEN DidOk(<<[did |-> did, raw |-> DidData(response)]>>)
         ELSE DidOk(<<>>)
    ELSE DidOk(<<>>)

\* identifiers asked for
Dids == {0, 18, 4608, 4660}

\* bytes a response is made of
DidBytes == {0, 18, 52}

\* longest response tail
MaxDidTail == 4

\* what the transport may hand back: nothing, an error, or a first byte
\* 0x62, 0x7F or 0x22 followed by up to MaxDidTail bytes
DidResponses ==
    {<<>>, SendErr}
    \cup {<<sid>> \o tail : sid \in {98, 127, 34},
                            tail \in UNION {[1..n -> DidBytes] : n \in 0..MaxDidTail}}

\* no call made yet
DidInit ==
    /\ rd_variant = "dcan"
    /\ rd_did = 0
    /\ rd_response = <<>>
    /\ rd_stage = "idle"
    /\ rd_result = DidOk(<<>>)

\* one call: the request goes out, the transport returns, the call returns
DidRead ==
    /\ rd_stage = "idle"
    /\ \E v \in {"dcan", "kline", "kline_multi"}, did \in Dids,
          response \in DidResponses :
          /\ rd_variant' = v
          /\ rd_did' = did
          /\ rd_response' = response
          /\ rd_result' = CASE v = "dcan" -> DCanHandler_read_data_by_id(did, response)
                           [] v = "kline" -> read_did_kline(did, response)
                           [] OTHER -> read_dids_kline(did, response)
    /\ rd_stage' = "returned"
    /\ UNCHANGED notDidVars

\* the caller has the result; the next call starts afresh
DidReset ==
    /\ rd_stage = "returned"
    /\ rd_variant' = "dcan"
    /\ rd_did' = 0
    /\ rd_response' = <<>>
    /\ rd_stage' = "idle"
    /\ rd_result' = DidOk(<<>>)
    /\ UNCHANGED notDidVars

DidNext ==
    \/ DidRead
    \/ DidReset

\* the response is positive and carries a whole identifier
EchoesSome == rd_response # SendErr /\ Len(rd_response) >= 3 /\ rd_response[1] = 98

\* the response is positive and carries the requested identifier
EchoesRequested ==
    /\ EchoesSome
    /\ <<rd_response[2], rd_response[3]>> = <<rd_did \div 256, rd_did % 256>>

MaxRowId == 2

RowIds == 1..MaxRowId

\* FOREIGN KEY ... ON DELETE CASCADE of initialize: with enforcement on,
\* the rows that reference a deleted parent are deleted with it
cascade(rows, parents) ==
    IF db_foreign_keys THEN {r \in rows : r.parent \notin parents} ELSE rows

\* FOREIGN KEY ... REFERENCES: with enforcement on, a row is inserted only
\* if its parent exists
references_ok(parent, parents) == db_foreign_keys => parent \in parents

SessionIds == {s.id : s \in db_sessions}

DbReturned(op, arg, ok) ==
    [op |-> op, arg |-> arg, ok |-> ok,
     sessions |-> {s.id : s \in {x \in db_sessions : x.parent = arg}}]

\* Database::new / in_memory: Connection::open and the empty schema
DbInit ==
    /\ db_foreign_keys \in BOOLEAN
    /\ db_vehicles = {}
    /\ db_sessions = {}
    /\ db_dtcs = {}
    /\ db_seq = [vehicles |-> 0, sessions |-> 0, dtcs |-> 0]
    /\ db_last = [op |-> "none", arg |-> 0, ok |-> TRUE, sessions |-> {}]

\* Database::create_vehicle
create_vehicle ==
    /\ db_seq.vehicles < MaxRowId
    /\ db_seq' = [db_seq EXCEPT !.vehicles = @ + 1]
    /\ db_vehicles' = db_vehicles \cup {db_seq.vehicles + 1}
    /\ db_last' = DbReturned("create_vehicle", db_seq.vehicles + 1, TRUE)
    /\ UNCHANGED <<db_foreign_keys, db_sessions, db_dtcs>>
    /\ UNCHANGED notDbVars

\* Database::create_session for any vehicle_id the caller passes
create_session ==
    \E vehicle_id \in RowIds :
        /\ db_seq.sessions < MaxRowId
        /\ IF references_ok(vehicle_id, db_vehicles)
           THEN /\ db_seq' = [db_seq EXCEPT !.sessions = @ + 1]
                /\ db_sessions' = db_sessions \cup
                       {[id |-> db_seq.sessions + 1, parent |-> vehicle_id]}
                /\ db_last' = DbReturned("create_session", vehicle_id, TRUE)
           ELSE /\ db_last' = DbReturned("create_session", vehicle_id, FALSE)
                /\ UNCHANGED <<db_seq, db_sessions>>
        /\ UNCHANGED <<db_foreign_keys, db_vehicles, db_dtcs>>
        /\ UNCHANGED notDbVars

\* Database::add_dtcs with one DTC for any session_id the caller passes
add_dtcs ==
    \E session_id \in RowIds :
        /\ db_seq.dtcs < MaxRowId
        /\ IF references_ok(session_id, SessionIds)
           THEN /\ db_seq' = [db_seq EXCEPT !.dtcs = @ + 1]
                /\ db_dtcs' = db_dtcs \cup
                       {[id |-> db_seq.dtcs + 1, parent |-> session_id]}
                /\ db_last' = DbReturned("add_dtcs", session_id, TRUE)
           ELSE /\ db_last' = DbReturned("add_dtcs", session_id, FALSE)
                /\ UNCHANGED <<db_seq, db_dtcs>>
        /\ UNCHANGED <<db_foreign_keys, db_vehicles, db_sessions>>
        /\ UNCHANGED notDbVars

\* Database::delete_vehicle: DELETE FROM vehicles WHERE id = ?1, and what
\* the schema makes follow
delete_vehicle ==
    \E id \in RowIds :
      LET sessions == cascade(db_sessions, {id})
          gone     == {s.id : s \in db_sessions \ sessions}
      IN
        /\ db_vehicles' = db_vehicles \ {id}
        /\ db_sessions' = sessions
        /\ db_dtcs' = cascade(db_dtcs, gone)
        /\ db_last' = DbReturned("delete_vehicle", id, id \in db_vehicles)
        /\ UNCHANGED <<db_foreign_keys, db_seq>>
        /\ UNCHANGED notDbVars

\* Database::delete_session: DELETE FROM diagnostic_sessions WHERE id = ?1
delete_session ==
    \E id \in RowIds :
        /\ db_sessions' = {s \in db_sessions : s.id # id}
        /\ db_dtcs' = cascade(db_dtcs, {id} \cap SessionIds)
        /\ db_last' = DbReturned("delete_session", id, id \in SessionIds)
        /\ UNCHANGED <<db_foreign_keys, db_vehicles, db_seq>>
        /\ UNCHANGED notDbVars

DbNext ==
    \/ create_vehicle
    \/ create_session
    \/ add_dtcs
    \/ delete_vehicle
    \/ delete_session

MAX_CONNECTIONS == 5

\* connections that arrive during one run of the daemon
MaxArrivals == 6

Connections == 1..MaxArrivals

\* a limit that lets one connection too many in
limit_reached_late(current) == current > MAX_CONNECTIONS

\* if current >= MAX_CONNECTIONS
limit_reached(current) == current >= MAX_CONNECTIONS

\* a handler that leaves the counter as it is
fetch_sub_none(n) == n

\* the largest usize, as far as the model's integers go
USIZE_MAX == 2147483647

\* ACTIVE_CONNECTIONS.fetch_sub(1, Ordering::SeqCst): wraps below 0
fetch_sub(n) == IF n = 0 THEN USIZE_MAX ELSE n - 1

\* ACTIVE_CONNECTIONS.fetch_add(1, Ordering::SeqCst): wraps above usize::MAX
fetch_add(n) == IF n = USIZE_MAX THEN 0 ELSE n + 1

\* the process has just started
SrvInit ==
    /\ sv_pc = "start"
    /\ sv_exit = -1
    /\ sv_listed = FALSE
    /\ sv_bound = FALSE
    /\ sv_arrived = 0
    /\ sv_current = 0
    /\ ACTIVE_CONNECTIONS = 0
    /\ h_pc = [c \in Connections |-> "none"]
    /\ h_end = [c \in Connections |-> "none"]
    /\ h_incs = [c \in Connections |-> 0]
    /\ h_decs = [c \in Connections |-> 0]

\* main: ftdi::list_devices()? fails (exit code 1), finds nothing (the
\* warning is printed and main returns Ok: exit code 0), or finds adapters
\* and prints them
SrvListDevices ==
    /\ sv_pc = "start"
    /\ \E listed \in BOOLEAN, devices \in 0..2 :
          IF ~listed
          THEN /\ sv_pc' = "exited"
               /\ sv_exit' = 1
               /\ UNCHANGED sv_listed
          ELSE IF devices = 0
          THEN /\ sv_pc' = "exited"
               /\ sv_exit' = 0
               /\ sv_listed' = TRUE
          ELSE /\ sv_pc' = "scanned"
               /\ sv_listed' = TRUE
               /\ UNCHANGED sv_exit
    /\ UNCHANGED <<sv_bound, sv_arrived, sv_current, ACTIVE_CONNECTIONS,
                   h_pc, h_end, h_incs, h_decs>>
    /\ UNCHANGED notSrvVars

\* run_server: TcpListener::bind(&addr).await? on 127.0.0.1:3003
SrvBind ==
    /\ sv_pc = "scanned"
    /\ \E bound \in BOOLEAN :
          IF bound
          THEN /\ sv_pc' = "listening"
               /\ sv_bound' = TRUE
               /\ UNCHANGED sv_exit
          ELSE /\ sv_pc' = "exited"
               /\ sv_exit' = 1
               /\ UNCHANGED sv_bound
    /\ UNCHANGED <<sv_listed, sv_arrived, sv_current, ACTIVE_CONNECTIONS,
                   h_pc, h_end, h_incs, h_decs>>
    /\ UNCHANGED notSrvVars

\* listener.accept() returns a stream; the counter is loaded
SrvAccept ==
    /\ sv_pc = "listening"
    /\ sv_arrived < MaxArrivals
    /\ sv_arrived' = sv_arrived + 1
    /\ sv_current' = ACTIVE_CONNECTIONS
    /\ h_pc' = [h_pc EXCEPT ![sv_arrived + 1] = "accepted"]
    /\ sv_pc' = "checking"
    /\ UNCHANGED <<sv_exit, sv_listed, sv_bound, ACTIVE_CONNECTIONS, h_end,
                   h_incs, h_decs>>
    /\ UNCHANGED notSrvVars

\* the limit is reached: drop(stream); continue
SrvReject ==
    /\ sv_pc = "checking"
    /\ limit_reached(sv_current)
    /\ h_pc' = [h_pc EXCEPT ![sv_arrived] = "dropped"]
    /\ sv_pc' = "listening"
    /\ UNCHANGED <<sv_exit, sv_listed, sv_bound, sv_arrived, sv_current,
                   ACTIVE_CONNECTIONS, h_end, h_incs, h_decs>>
    /\ UNCHANGED notSrvVars

\* below the limit: fetch_add(1) and tokio::spawn of the handler
SrvSpawn ==
    /\ sv_pc = "checking"
    /\ ~limit_reached(sv_current)
    /\ ACTIVE_CONNECTIONS' = fetch_add(ACTIVE_CONNECTIONS)
    /\ h_incs' = [h_incs EXCEPT ![sv_arrived] = @ + 1]
    /\ h_pc' = [h_pc EXCEPT ![sv_arrived] = "handshake"]
    /\ sv_pc' = "listening"
    /\ UNCHANGED <<sv_exit, sv_listed, sv_bound, sv_arrived, sv_current,
                   h_end, h_decs>>
    /\ UNCHANGED notSrvVars

\* listener.accept() returns Err: the while let loop ends, run_server and
\* main return Ok(()) and the runtime is shut down with its tasks
SrvShutdown ==
    /\ sv_pc = "listening"
    /\ sv_pc' = "exited"
    /\ sv_exit' = 0
    /\ UNCHANGED <<sv_listed, sv_bound, sv_arrived, sv_current,
                   ACTIVE_CONNECTIONS, h_pc, h_end, h_incs, h_decs>>
    /\ UNCHANGED notSrvVars

\* handle_connection: accept_async(stream).await? and the welcome message
HandleHandshake ==
    \E c \in Connections, ok \in BOOLEAN :
        /\ sv_pc # "exited"
        /\ h_pc[c] = "handshake"
        /\ h_pc' = [h_pc EXCEPT ![c] = IF ok THEN "serving" ELSE "returned"]
        /\ h_end' = [h_end EXCEPT ![c] = IF ok THEN "none" ELSE "handshake"]
        /\ UNCHANGED <<sv_pc, sv_exit, sv_listed, sv_bound, sv_arrived,
                       sv_current, ACTIVE_CONNECTIONS, h_incs, h_decs>>
        /\ UNCHANGED notSrvVars

\* handle_connection: the message loop ends on Message::Close (break, Ok),
\* on a WebSocket error (break, Ok) or on a failed send (Err)
HandleEnd ==
    \E c \in Connections, why \in {"close", "error", "send"} :
        /\ sv_pc # "exited"
        /\ h_pc[c] = "serving"
        /\ h_pc' = [h_pc EXCEPT ![c] = "returned"]
        /\ h_end' = [h_end EXCEPT ![c] = why]
        /\ UNCHANGED <<sv_pc, sv_exit, sv_listed, sv_bound, sv_arrived,
                       sv_current, ACTIVE_CONNECTIONS, h_incs, h_decs>>
        /\ UNCHANGED notSrvVars

\* the spawned task after handle_connection: fetch_sub(1), task over
HandleDone ==
    \E c \in Connections :
        /\ sv_pc # "exited"
        /\ h_pc[c] = "returned"
        /\ ACTIVE_CONNECTIONS' = fetch_sub(ACTIVE_CONNECTIONS)
        /\ h_decs' = [h_decs EXCEPT ![c] = @ + 1]
        /\ h_pc' = [h_pc EXCEPT ![c] = "closed"]
        /\ h_end' = [h_end EXCEPT ![c] = "none"]
        /\ UNCHANGED <<sv_pc, sv_exit, sv_listed, sv_bound, sv_arrived,
                       sv_current, h_incs>>
        /\ UNCHANGED notSrvVars

SrvNext ==
    \/ SrvListDevices
    \/ SrvBind
    \/ SrvAccept
    \/ SrvReject
    \/ SrvSpawn
    \/ SrvShutdown
    \/ HandleHandshake
    \/ HandleEnd
    \/ HandleDone

(***************************************************************************)
(* Properties of the daemon process (checked under SpecServer)             *)
(***************************************************************************)

\* connections whose handler task exists
Active == {c \in Connections : h_pc[c] \in {"handshake", "serving", "returned"}}

\* C33: on every start the daemon enumerates and prints the adapters and
\* then binds its socket; it exits with code 0 only on normal shutdown of
\* the server it bound, and with a non-zero code on bind or driver failure.
C33_StartAndExitCodes ==
    /\ sv_bound => sv_listed
    /\ sv_exit = 0 => sv_bound
    /\ (sv_pc = "exited" /\ ~sv_bound) => sv_exit # 0

\* C35: the number of concurrently active connections never exceeds 5; a
\* connection that arrives while 5 are active is dropped without being
\* served and without changing the active-connection count.
C35_ConnectionLimit ==
    [][/\ ACTIVE_CONNECTIONS <= MAX_CONNECTIONS
       /\ Cardinality(Active) <= MAX_CONNECTIONS
       /\ \A c \in Connections :
             h_pc[c] = "dropped" => (h_incs[c] = 0 /\ h_pc'[c] = "dropped")
       /\ (sv_pc = "checking" /\ sv_current >= MAX_CONNECTIONS
             /\ sv_pc' # "checking") =>
             /\ h_pc'[sv_arrived] = "dropped"
             /\ UNCHANGED <<ACTIVE_CONNECTIONS, h_incs, h_decs>>]_vars

\* the sixth connection arrived while five were being served and was
\* dropped; the five are still active
C35_Witness ==
    /\ h_pc[6] = "dropped"
    /\ ACTIVE_CONNECTIONS = 5
    /\ \A c \in 1..5 : h_pc[c] = "serving"

\* C40: every accepted connection increments the active-connection counter
\* exactly once and decrements it exactly once when its handler ends,
\* whether by client close, WebSocket error or failed handshake; whenever
\* no connection handler is running the counter is 0.
C40_CounterBalanced ==
    [][/\ \A c \in Connections :
             /\ h_incs[c] = IF h_pc[c] \in {"handshake", "serving", "returned",
                                            "closed"} THEN 1 ELSE 0
             /\ h_decs[c] = IF h_pc[c] = "closed" THEN 1 ELSE 0
             /\ (h_pc[c] = "returned" /\ h_pc'[c] # "returned") =>
                   /\ h_end[c] \in {"close", "error", "send", "handshake"}
                   /\ h_pc'[c] = "closed"
                   /\ h_decs'[c] = 1
                   /\ ACTIVE_CONNECTIONS' = ACTIVE_CONNECTIONS - 1
       /\ ACTIVE_CONNECTIONS = Cardinality(Active)
       /\ Active = {} => ACTIVE_CONNECTIONS = 0]_vars

\* two handlers have ended and given their count back, a third has failed
\* its handshake and is about to; a fourth is still serving
C40_Witness ==
    /\ h_pc[1] = "closed" /\ h_incs[1] = 1 /\ h_decs[1] = 1
    /\ h_pc[2] = "closed" /\ h_incs[2] = 1 /\ h_decs[2] = 1
    /\ h_pc[3] = "returned" /\ h_end[3] = "handshake" /\ h_decs[3] = 0
    /\ h_pc[4] = "serving"
    /\ ACTIVE_CONNECTIONS = 2

(***************************************************************************)
(* Rate limit of one connection: handle_connection                         *)
(* (src/daemon-ftdi/src/websocket.rs).  Text messages arrive at instants   *)
(* that are TickMs apart; any number may arrive at one instant.            *)
(***************************************************************************)

\* const MAX_COMMANDS_PER_SECOND: usize = 20
MAX_COMMANDS_PER_SECOND == 20

\* the step of the clock
TickMs == 500

\* instants within one second
TicksPerSecond == 1000 \div TickMs

\* text messages counted within one window of the limiter before the model
\* stops offering more
MaxBurst == 22

\* if elapsed >= 1.0
window_over(elapsed) == elapsed * TickMs >= 1000

\* if command_count > MAX_COMMANDS_PER_SECOND
over_limit(command_count) == command_count > MAX_COMMANDS_PER_SECOND

RECURSIVE SumSeq(_)
SumSeq(s) == IF s = <<>> THEN 0 ELSE Head(s) + SumSeq(Tail(s))

\* the handshake is done: command_count = 0, rate_limit_start = now
RateInit ==
    /\ q_command_count = 0
    /\ q_elapsed = 0
    /\ q_recent = [i \in 1..TicksPerSecond |-> 0]
    /\ q_last = "none"

\* TickMs go by without a message
RateTick ==
    /\ q_elapsed' = Min(q_elapsed + 1, TicksPerSecond)
    /\ q_recent' = Append(Tail(q_recent), 0)
    /\ q_last' = "none"
    /\ UNCHANGED q_command_count
    /\ UNCHANGED notRateVars

\* Ok(Message::Text(text)): the window is restarted when it is over, the
\* message is counted, and it is answered "Rate limit exceeded" or handed
\* to process_command (or answered "Invalid command" when it does not parse)
RateText ==
    \E valid \in BOOLEAN :
      LET restart == window_over(q_elapsed)
          count   == (IF restart THEN 0 ELSE q_command_count) + 1
      IN
        /\ count <= MaxBurst
        /\ q_command_count' = count
        /\ q_elapsed' = IF restart THEN 0 ELSE q_elapsed
        /\ IF over_limit(count)
           THEN /\ valid
                /\ q_last' = "rate_limited"
                /\ UNCHANGED q_recent
           ELSE IF valid
           THEN /\ q_last' = "executed"
                /\ q_recent' = [q_recent EXCEPT ![TicksPerSecond] = @ + 1]
           ELSE /\ q_last' = "invalid"
                /\ UNCHANGED q_recent
        /\ UNCHANGED notRateVars

RateNext ==
    \/ RateTick
    \/ RateText

\* C36: for each connection, at most 20 commands are executed in any one
\* second; every command beyond the limit receives a 'Rate limit exceeded'
\* error response and is not executed.
C36_RateLimit ==
    [][/\ SumSeq(q_recent) <= MAX_COMMANDS_PER_SECOND
       /\ q_last' = "rate_limited" => UNCHANGED q_recent
       /\ (q_last' = "executed" /\ q_command_count' = q_command_count + 1)
             => q_command_count < MAX_COMMANDS_PER_SECOND]_vars

(***************************************************************************)
(* Connection manager: SerialManager::connect / disconnect                 *)
(* (src/app/src-tauri/src/serial.rs) and the Connect / Disconnect arms of  *)
(* process_command (src/daemon-ftdi/src/websocket.rs).  Each operation     *)
(* runs under the lock, from its first statement to its last.              *)
(***************************************************************************)

\* ports / device indexes a caller may name
MaxPortIndex == 3

\* port names (application) and device indexes (daemon); -1 is an index
\* only the daemon's client can send
PortIndexes == 0..MaxPortIndex

BaudRates == {9600, 10400, 115200}

\* what is recorded for port or device p
Recorded(p) == p + 1

\* if device_index < 0
index_invalid(device_index) == device_index < 0

\* a manager that keeps what it held when the port does not open
teardown_kept(held) == held

\* connect drops what is held before it opens the port: self.disconnect()? /
\* state.kline = None
teardown(held) == FALSE

\* ConnectionState::Connected / "connected": state.kline.is_some()
ReportsConnected ==
    IF cm_variant = "app" THEN cm_state = "Connected" ELSE cm_port

ConnLast(op, ok) ==
    [op |-> op, ok |-> ok, held |-> cm_port, current |-> cm_current]

\* SerialManager::new / AppState as run_server builds it
ConnInit ==
    /\ cm_variant \in {"app", "daemon"}
    /\ cm_port = FALSE
    /\ cm_current = 0
    /\ cm_state = "Disconnected"
    /\ cm_baud_rate = 10400
    /\ cm_last = [op |-> "none", ok |-> TRUE, held |-> FALSE, current |-> 0]

\* SerialManager::connect / WsCommand::Connect
ConnConnect ==
    \E p \in PortIndexes \cup {-1}, baud \in BaudRates, opened \in BOOLEAN :
        /\ p = -1 => cm_variant = "daemon"
        /\ cm_variant = "daemon" => baud = 10400
        /\ IF cm_variant = "daemon" /\ index_invalid(p)
           THEN /\ opened
                /\ cm_last' = ConnLast("connect", FALSE)
                /\ UNCHANGED <<cm_port, cm_current, cm_state, cm_baud_rate>>
           ELSE /\ cm_port' = IF opened THEN TRUE ELSE teardown(cm_port)
                /\ cm_current' = IF opened THEN Recorded(p)
                                 ELSE IF teardown(cm_port) THEN cm_current ELSE 0
                /\ cm_state' = IF cm_variant = "daemon" THEN cm_state
                               ELSE IF opened THEN "Connected" ELSE "Error"
                /\ cm_baud_rate' = IF cm_variant = "app" THEN baud
                                   ELSE cm_baud_rate
                /\ cm_last' = ConnLast("connect", opened)
        /\ UNCHANGED cm_variant
        /\ UNCHANGED notConnVars

\* SerialManager::disconnect / WsCommand::Disconnect
ConnDisconnect ==
    /\ cm_port' = FALSE
    /\ cm_current' = 0
    /\ cm_state' = IF cm_variant = "app" THEN "Disconnected" ELSE cm_state
    /\ cm_last' = ConnLast("disconnect", TRUE)
    /\ UNCHANGED <<cm_variant, cm_baud_rate>>
    /\ UNCHANGED notConnVars

ConnNext ==
    \/ ConnConnect
    \/ ConnDisconnect

\* C38 as stated: after every connect or disconnect operation the manager
\* reports Connected exactly when a port handle is held and a current
\* port/device is recorded; a failed connect, also one issued while
\* already connected, leaves no handle held and no port/device recorded.
C38_ManagerConsistent ==
    /\ ReportsConnected <=> (cm_port /\ cm_current # 0)
    /\ (cm_last.op = "connect" /\ ~cm_last.ok) => (~cm_port /\ cm_current = 0)

\* C38: after every connect or disconnect operation the manager reports
\* Connected exactly when a port handle is held and a current port/device
\* is recorded; a connect whose port does not open, also one issued while
\* already connected, leaves no handle held and no port/device recorded; a
\* Connect the daemon refuses for its device index leaves the handle and
\* the recorded device as they were.
C38_ConsistentUnlessRefused ==
    /\ ReportsConnected <=> (cm_port /\ cm_current # 0)
    /\ cm_port <=> cm_current # 0
    /\ (cm_last.op = "connect" /\ ~cm_last.ok) =>
          \/ ~cm_port /\ cm_current = 0
          \/ /\ cm_variant = "daemon"
             /\ cm_port = cm_last.held
             /\ cm_current = cm_last.current

\* a connect issued while port 0 was open did not get its port open
C38_Witness ==
    /\ cm_variant = "app"
    /\ cm_last = [op |-> "connect", ok |-> FALSE, held |-> TRUE,
                  current |-> Recorded(0)]
    /\ cm_state = "Error"
    /\ ~cm_port
    /\ cm_current = 0

\* the codec harness at rest, in a release build
CodecIdle == CodecInit /\ ~overflow_checks

\* one link at rest: the daemon's, on a host other than Windows
LinkIdle == LinkInit /\ l_variant = "daemon" /\ ~l_windows

\* the daemon's dispatcher at rest
DispIdle == DispInit /\ d_variant = "daemon"

\* the receive harness at rest
RxIdle == RxInit

\* the daemon's link before any init call
InitIdle == InitInit /\ i_variant = "daemon"

\* the daemon's link before any exchange
SessIdle == SessInit /\ s_variant = "daemon"

\* the application before any service command
CmdIdle == CmdInit

\* the ISO-TP transport before any call
TpIdle == TpInit

\* DTC decoding before any record
DtcIdle == DtcInit

\* ReadDataByIdentifier before any call
DidIdle == DidInit

\* an empty store on a library that enforces foreign keys
DbIdle == DbInit /\ db_foreign_keys

\* the daemon process before its first step
SrvIdle == SrvInit

\* a connection that has sent no message
RateIdle == RateInit

\* the daemon's manager before any operation
ConnIdle == ConnInit /\ cm_variant = "daemon"

(***************************************************************************)
(* Specifications                                                          *)
(***************************************************************************)

InitCodec == CodecInit /\ LinkIdle /\ DispIdle /\ RxIdle /\ InitIdle /\ SessIdle /\ CmdIdle /\ TpIdle /\ DtcIdle /\ DidIdle /\ DbIdle /\ SrvIdle /\ RateIdle /\ ConnIdle

\* the frame codec applied to bounded inputs
SpecCodec == InitCodec /\ [][CodecNext]_vars

InitLink == CodecIdle /\ LinkInit /\ DispIdle /\ RxIdle /\ InitIdle /\ SessIdle /\ CmdIdle /\ TpIdle /\ DtcIdle /\ DidIdle /\ DbIdle /\ SrvIdle /\ RateIdle /\ ConnIdle

\* one K-Line link used by successive send_request calls
SpecLink == InitLink /\ [][LinkNext]_vars

InitLease == CodecIdle /\ LinkIdle /\ DispInit /\ RxIdle /\ InitIdle /\ SessIdle /\ CmdIdle /\ TpIdle /\ DtcIdle /\ DidIdle /\ DbIdle /\ SrvIdle /\ RateIdle /\ ConnIdle

\* the clients of one program and the Mutex that serialises its bus
SpecLease == InitLease /\ [][DispNext]_vars

InitRx == CodecIdle /\ LinkIdle /\ DispIdle /\ RxInit /\ InitIdle /\ SessIdle /\ CmdIdle /\ TpIdle /\ DtcIdle /\ DidIdle /\ DbIdle /\ SrvIdle /\ RateIdle /\ ConnIdle

\* byte sequences read from the bus and decoded
SpecRx == InitRx /\ [][RxNext]_vars

InitInitCalls == CodecIdle /\ LinkIdle /\ DispIdle /\ RxIdle /\ InitInit /\ SessIdle /\ CmdIdle /\ TpIdle /\ DtcIdle /\ DidIdle /\ DbIdle /\ SrvIdle /\ RateIdle /\ ConnIdle

\* init calls served one after another on one link
SpecInit == InitInitCalls /\ [][InitNext]_vars

InitSession == CodecIdle /\ LinkIdle /\ DispIdle /\ RxIdle /\ InitIdle /\ SessInit /\ CmdIdle /\ TpIdle /\ DtcIdle /\ DidIdle /\ DbIdle /\ SrvIdle /\ RateIdle /\ ConnIdle

\* the exchanges of one link with its ECU
SpecSession == InitSession /\ [][SessNext]_vars

InitCommands == CodecIdle /\ LinkIdle /\ DispIdle /\ RxIdle /\ InitIdle /\ SessIdle /\ CmdInit /\ TpIdle /\ DtcIdle /\ DidIdle /\ DbIdle /\ SrvIdle /\ RateIdle /\ ConnIdle

\* service commands called one after another
SpecCommands == InitCommands /\ [][CmdNext]_vars

InitIsoTp == CodecIdle /\ LinkIdle /\ DispIdle /\ RxIdle /\ InitIdle /\ SessIdle /\ CmdIdle /\ TpInit /\ DtcIdle /\ DidIdle /\ DbIdle /\ SrvIdle /\ RateIdle /\ ConnIdle

\* ISO-TP messages sent and received one after another
SpecIsoTp == InitIsoTp /\ [][TpNext]_vars

InitDtc == CodecIdle /\ LinkIdle /\ DispIdle /\ RxIdle /\ InitIdle /\ SessIdle /\ CmdIdle /\ TpIdle /\ DtcInit /\ DidIdle /\ DbIdle /\ SrvIdle /\ RateIdle /\ ConnIdle

\* DTC records decoded one after another
SpecDtc == InitDtc /\ [][DtcNext]_vars

InitDid == CodecIdle /\ LinkIdle /\ DispIdle /\ RxIdle /\ InitIdle /\ SessIdle /\ CmdIdle /\ TpIdle /\ DtcIdle /\ DidInit /\ DbIdle /\ SrvIdle /\ RateIdle /\ ConnIdle

\* ReadDataByIdentifier calls made one after another
SpecDid == InitDid /\ [][DidNext]_vars

InitDb == CodecIdle /\ LinkIdle /\ DispIdle /\ RxIdle /\ InitIdle /\ SessIdle /\ CmdIdle /\ TpIdle /\ DtcIdle /\ DidIdle /\ DbInit /\ SrvIdle /\ RateIdle /\ ConnIdle

\* store operations called one after another
SpecDb == InitDb /\ [][DbNext]_vars

InitServer == CodecIdle /\ LinkIdle /\ DispIdle /\ RxIdle /\ InitIdle /\ SessIdle /\ CmdIdle /\ TpIdle /\ DtcIdle /\ DidIdle /\ DbIdle /\ SrvInit /\ RateIdle /\ ConnIdle

\* one run of the daemon process and its connections
SpecServer == InitServer /\ [][SrvNext]_vars

InitRate == CodecIdle /\ LinkIdle /\ DispIdle /\ RxIdle /\ InitIdle /\ SessIdle /\ CmdIdle /\ TpIdle /\ DtcIdle /\ DidIdle /\ DbIdle /\ SrvIdle /\ RateInit /\ ConnIdle

\* the text messages of one connection
SpecRate == InitRate /\ [][RateNext]_vars

InitConn == CodecIdle /\ LinkIdle /\ DispIdle /\ RxIdle /\ InitIdle /\ SessIdle /\ CmdIdle /\ TpIdle /\ DtcIdle /\ DidIdle /\ DbIdle /\ SrvIdle /\ RateIdle /\ ConnInit

\* connect and disconnect operations, one after another
SpecConn == InitConn /\ [][ConnNext]_vars

====
